---- MODULE Spec2Model ----
(***************************************************************************)
(* A state-machine model of the witness generator                          *)
(* (risc0/circuit/rv32im/src/prove/engine/witgen.rs) and of the CUDA HAL   *)
(* (risc0/zkp/src/hal/cuda.rs).                                            *)
(*                                                                         *)
(* The module holds independent sub-machines that share one variable list; *)
(* each has its own specification which keeps the variables of the other   *)
(* sub-machines at their initial values, among them:                       *)
(*   SpecWitgen  WitnessGenerator::new / execute                           *)
(*   SpecTest    WitnessGenerator::test_step_execute                       *)
(*   SpecBuf     BufferImpl / RawBuffer / tracker                          *)
(*   SpecSlice   Buffer::slice over the whole range of usize               *)
(*   SpecHal     kernel launches on the HAL stream                         *)
(*   SpecLock    the singleton() re-entrant mutex and CudaHal lifetimes    *)
(* and one specification per group of HAL operations.                      *)
(***************************************************************************)
EXTENDS Integers, Sequences, FiniteSets, TLC

(***************************************************************************)
(* Bounds of the model.                                                    *)
(***************************************************************************)
\* The model field is 0 .. FieldSize-1 (BabyBear scaled down).
FieldSize == 3
\* Pre-flight traces are numbered 0 .. MaxTrace.
MaxTrace == 1
\* thread_rng() states are numbered 0 .. MaxSeed.
MaxSeed == 0
\* Loader::load returns a last_cycle of at most MaxLoad (and at most steps).
MaxLoad == 6
\* Device stores ever allocated, live BufferImpl values, elements per store.
MaxStores == 2
MaxViews == 2
MaxLen == 3
\* Buffer elements are 0 .. MaxVal.
MaxVal == 1
\* HAL calls made in one behaviour, and device buffers they work on.
MaxCalls == 3
HalBufs == 2
\* Prover threads, and CudaHal values one thread constructs.
MaxThreads == 3
MaxHals == 2
\* Digests are 0 .. DigestMax; hash_fold calls made on one buffer.
DigestMax == 2
MaxFolds == 2
\* batch_expand_into_evaluate_ntt: largest buffer size and expand_bits passed.
MaxNtt == 8
MaxBits == 3
\* prefix_products: longest buffer and number of extension-field elements.
MaxProd == 4
ExtOrder == 5
\* gather_sample: MaxThreadsPerBlock of the device, longest src and dst.
max_threads == 8
MaxSrc == 5
MaxDst == 4
\* Width in bits of the launch integers (u32), scaled down.
UBits == 7

\* The number of bits of usize in the buffer machine.
UsizeBits == 4
\* NTT round trip: longest row is 2^MaxRowBits, coefficients are 0 .. MaxCoef.
MaxRowBits == 2
MaxCoef == 2

(***************************************************************************)
(* Program constants.                                                      *)
(***************************************************************************)
\* risc0_zkp::ZK_CYCLES, scaled to the value of the specification's S1.
ZK_CYCLES == 4
\* CIRCUIT.ctrl_size(), CIRCUIT.data_size(): column counts of the circuit.
CtrlSize == 1
DataSize == 3
\* Length of the caller's io vector.
IoSize == 1
\* The back window W of the step kernels.
BackWindow == 1

\* std::mem::size_of::<T>() for T = BabyBearElem.
ItemSize == 4

\* The po2 arguments of WitnessGenerator::new that are explored.
Po2Set == {2, 3}

ZERO == 0
ONE == 1
Fp == 0 .. (FieldSize - 1)
\* BabyBearElem::INVALID: the one encoding outside the canonical range.
INVALID == FieldSize
Elem == Fp \cup {INVALID}

Phases == {"exec", "ram", "bytes"}

VARIABLES
    \* ---- witness generator ----
    mode,        \* "par" | "seq": cfg(feature = "seq")
    steps,       \* WitnessGenerator.steps
    ctrl,        \* WitnessGenerator.ctrl
    data,        \* WitnessGenerator.data
    io,          \* WitnessGenerator.io
    io0,         \* the io slice the caller handed to new()
    trace,       \* the PreflightTrace handed to execute()
    seed,        \* state of thread_rng() when execute() is called
    loadLast,    \* the last_cycle Loader::load returns
    loaderFill,  \* whether the loader stamps the ctrl rows of the ZK block too
    backAtZero,  \* what the step kernels load at cycle 0: "none" | "wrap"
    is_fwd,      \* the is_fwd argument of test_step_execute
    machine,     \* MachineContext: the per-phase tables keyed by cycle
    pc,          \* position of execute()
    last_cycle,  \* local last_cycle of the running compute_* phase
    cycle,       \* loop variable of the running inject_*_backs loop
    pending,     \* cycles of the running dispatch that have not been stepped
    failed,      \* a step of the running parallel dispatch returned Err
    errPc,       \* position at which the first Err was produced ("none")
    injected,    \* history: phase -> cycles whose inject_*_backs was called
    stepped,     \* history: phase -> cycles whose step was called
    sorted,      \* history: sort keys whose sort returned Ok
    acc,         \* history: cycle -> cells written/read by its step (this dispatch)
    written,     \* history: cells of data written since new()
    readUninit,  \* history: a step kernel read an INVALID back cell
    retried,     \* history: an operation was run a second time
    rngDraws,    \* number of BabyBearElem::random draws made
    errors,      \* number of operations that returned Err
    \* ---- buffers ----
    stores,      \* RawBuffer values ever created: [mem, bytes, live]
    views,       \* live BufferImpl values: slot -> [store, offset, size, ..]
    tracker,     \* bytes the global tracker() counts as allocated
    released,    \* history: store -> number of times RawBuffer::drop ran
    lastSlice,   \* history: how the last call of slice ended
    aborted,     \* the process was aborted while it used a buffer
    \* ---- HAL stream ----
    queue,       \* kernels launched on the stream and not yet completed
    dev,         \* device buffer -> the kernel that last wrote it
    hcalls,      \* number of HAL calls made
    lastCall,    \* history: the HAL call that returned last
    dangling,    \* history: a kernel ran after its temporaries were dropped
    \* ---- singleton lock ----
    owner,       \* thread holding the ReentrantMutex, 0 when it is free
    count,       \* number of guards the owner holds
    hals,        \* thread -> live CudaHal values it owns
    streams,     \* thread -> streams created and not yet destroyed
    tpc,         \* thread -> where it is
    \* ---- data of single HAL operations ----
    obuf,        \* the device buffers the operations work on
    obuf0,       \* history: the buffers as first filled
    ocall,       \* history: the last call, its arguments and what it did
    ohist        \* history: the size arguments of the calls that ran a kernel

wvars == <<mode, steps, ctrl, data, io, io0, trace, seed, loadLast, loaderFill,
           backAtZero, is_fwd, machine, pc, last_cycle, cycle, pending, failed, errPc, injected,
           stepped, sorted, acc, written, readUninit, retried, rngDraws, errors>>

bvars == <<stores, views, tracker, released, lastSlice, aborted>>

hvars == <<queue, dev, hcalls, lastCall, dangling>>

lvars == <<owner, count, hals, streams, tpc>>

ovars == <<obuf, obuf0, ocall, ohist>>

vars == <<wvars, bvars, hvars, lvars, ovars>>

(***************************************************************************)
(* Field helpers.                                                          *)
(***************************************************************************)
\* BabyBearElem::valid_or_zero
valid_or_zero(x) == IF x = INVALID THEN ZERO ELSE x

\* BabyBearElem::random(&mut rng): the k-th draw of the generator in state s.
RngDraw(s, k) == (s + k * (s + 2) + (k \div FieldSize)) % FieldSize

Min(S) == CHOOSE x \in S : \A y \in S : x =< y

(***************************************************************************)
(* Column-major layout: column j, cycle c of a buffer with `steps` rows.   *)
(***************************************************************************)
Idx(j, c) == j * steps + c

Col(ph) == CASE ph = "exec" -> 0 [] ph = "ram" -> 1 [] ph = "bytes" -> 2

Rows == steps - ZK_CYCLES

(***************************************************************************)
(* The pre-flight trace and the machine context.                           *)
(***************************************************************************)
\* The entry of trace t for cycle c.
TraceAt(t, c) == (t + c * (t + 1)) % FieldSize

RECURSIVE Insert(_, _)
Insert(x, s) ==
    IF s = <<>> THEN <<x>>
    ELSE IF x < Head(s) THEN <<x>> \o s
    ELSE <<Head(s)>> \o Insert(x, Tail(s))

RECURSIVE SortTable(_)
\* MachineContext::sort: stable, non-decreasing by key.
SortTable(s) == IF s = <<>> THEN <<>> ELSE Insert(s[Len(s)], SortTable(SubSeq(s, 1, Len(s) - 1)))

\* MachineContext::new(steps, trace): the tables in cycle order.
MachineNew(n, t) ==
    [exec  |-> [c \in 1 .. n |-> TraceAt(t, c - 1)],
     ram   |-> [c \in 1 .. n |-> TraceAt(t, c - 1)],
     bytes |-> [c \in 1 .. n |-> (2 * TraceAt(t, c - 1) + 1) % FieldSize]]

\* The step kernel of the circuit: the value of a row from its table entry
\* and the back value it reads.  An INVALID back value is garbage in,
\* garbage out.
Kernel(key, back) ==
    IF back = INVALID THEN INVALID ELSE (key + back + 1) % FieldSize

\* What a step kernel loads at cycle 0, where the back cells
\* data[j * steps + (cycle - k)] lie before the first row.  The kernels are
\* generated code and the contract leaves the case open, so both conventions
\* are followed: the kernel loads nothing ("none"), or it loads the cell
\* with the row index taken modulo steps ("wrap"), row steps - k.
BackConventions == {"none", "wrap"}

\* The distances k in (0, W] at which the step of cycle c loads a back cell.
BackDistances(c) == {k \in 1 .. BackWindow : c - k >= 0 \/ backAtZero = "wrap"}

\* The back cells the step of cycle c loads.
BackCells(ph, c) == {Idx(Col(ph), (c - k + steps) % steps) : k \in BackDistances(c)}

\* The contents of the back cells the step of cycle c loads from data d.
BackLoads(d, ph, c) == {d[x] : x \in BackCells(ph, c)}

\* The back value the row of cycle c is computed from: the cell of cycle
\* c - 1.  No cycle precedes cycle 0; its row is computed from the initial
\* back state ZERO in the sequential loop, where nothing has been stepped
\* before, and so in every mode, whatever the kernel loads there.
BackValue(d, ph, c) == IF c = 0 THEN ZERO ELSE d[Idx(Col(ph), c - 1)]

\* step_exec / step_verify_mem / step_verify_bytes at cycle c on data d.
StepWrite(d, tab, ph, c) ==
    [d EXCEPT ![Idx(Col(ph), c)] = Kernel(tab[c + 1], BackValue(d, ph, c))]

RECURSIVE SeqVal(_, _)
\* The value sequential stepping gives row r, derived from the table alone.
SeqVal(tab, r) ==
    Kernel(tab[r + 1], IF r = 0 THEN ZERO ELSE SeqVal(tab, r - 1))

\* The back value inject_*_backs stores for cycle c: the value of row c - 1,
\* the initial back state for cycle 0.
InjectValue(tab, c) == IF c = 0 THEN ZERO ELSE SeqVal(tab, c - 1)

\* inject_*_backs at cycle c: pre-populates the back cells of cycle c.
InjectWrite(d, tab, ph, c) ==
    [x \in DOMAIN d |-> IF x \in BackCells(ph, c) THEN InjectValue(tab, c) ELSE d[x]]

RECURSIVE SeqLoop(_, _, _, _)
\* for c in 0..n { step(c) }
SeqLoop(d, tab, ph, n) ==
    IF n = 0 THEN d ELSE StepWrite(SeqLoop(d, tab, ph, n - 1), tab, ph, n - 1)

NoAcc == [w |-> {}, r |-> {}, v |-> {}]

\* An empty BufferImpl slot; sum, rel and psize are history fields: the sum of
\* the offsets requested along the chain of slice calls, the offset requested
\* by the last of them, and the size of the view it was called on.
NoView == [store |-> 0, offset |-> 0, size |-> 0, sum |-> 0, rel |-> 0, psize |-> 0]

NoCall == [id |-> 0, op |-> "none"]

NoOp == [op |-> "none"]

\* No slice call yet; otherwise res is "ok" or "panic" and over tells whether
\* offset + size exceeded the size of the buffer sliced.
NoSlice == [res |-> "none", over |-> FALSE]

(***************************************************************************)
(* WitnessGenerator::new                                                   *)
(***************************************************************************)
\* The initial state of the buffer machine: nothing allocated.
BufIdle ==
    /\ stores = <<>>
    /\ views = [v \in 1 .. MaxViews |-> NoView]
    /\ tracker = 0
    /\ released = [s \in 1 .. MaxStores |-> 0]
    /\ lastSlice = NoSlice
    /\ aborted = FALSE

\* The initial state of the stream machine: a fresh stream, nothing launched.
HalIdle ==
    /\ queue = <<>>
    /\ dev = [b \in 1 .. HalBufs |-> "init"]
    /\ hcalls = 0
    /\ lastCall = NoCall
    /\ dangling = FALSE

\* The initial state of the lock machine: the mutex is free, no CudaHal exists.
LockIdle ==
    /\ owner = 0
    /\ count = 0
    /\ hals = [t \in 1 .. MaxThreads |-> 0]
    /\ streams = [t \in 1 .. MaxThreads |-> 0]
    /\ tpc = [t \in 1 .. MaxThreads |-> "idle"]

\* The initial state of the operation machines: no buffer, no call.
OpsIdle ==
    /\ obuf = <<>>
    /\ obuf0 = <<>>
    /\ ocall = NoOp
    /\ ohist = <<>>

InitWitgen ==
    /\ mode \in {"par", "seq"}
    /\ \E po2 \in Po2Set : steps = 2 ^ po2
    /\ ctrl = [x \in 0 .. (CtrlSize * steps - 1) |-> ZERO]
    /\ data = [x \in 0 .. (DataSize * steps - 1) |-> INVALID]
    /\ io0 \in [1 .. IoSize -> Elem]
    /\ io = io0
    /\ trace \in 0 .. MaxTrace
    /\ seed \in 0 .. MaxSeed
    /\ loadLast \in 0 .. (IF steps < MaxLoad THEN steps ELSE MaxLoad)
    /\ loaderFill \in BOOLEAN
    /\ backAtZero \in BackConventions
    /\ is_fwd = TRUE
    /\ machine = MachineNew(steps, trace)
    /\ pc = "load"
    /\ last_cycle = 0
    /\ cycle = 0
    /\ pending = {}
    /\ failed = FALSE
    /\ errPc = "none"
    /\ injected = [ph \in Phases |-> {}]
    /\ stepped = [ph \in Phases |-> {}]
    /\ sorted = {}
    /\ acc = [c \in 0 .. (steps - 1) |-> NoAcc]
    /\ written = {}
    /\ readUninit = FALSE
    /\ retried = FALSE
    /\ rngDraws = 0
    /\ errors = 0
    /\ BufIdle
    /\ HalIdle
    /\ LockIdle
    /\ OpsIdle

(***************************************************************************)
(* WitnessGenerator::execute, step by step.                                *)
(***************************************************************************)
inputs == <<mode, steps, io0, trace, seed, loadLast, loaderFill, backAtZero, is_fwd>>

InjectPc(ph) ==
    CASE ph = "exec" -> "inject_exec" [] ph = "ram" -> "inject_mem" [] ph = "bytes" -> "inject_bytes"

StepPc(ph) ==
    CASE ph = "exec" -> "step_exec" [] ph = "ram" -> "step_mem" [] ph = "bytes" -> "step_bytes"

AfterPc(ph) ==
    CASE ph = "exec" -> "sort_ram" [] ph = "ram" -> "sort_bytes" [] ph = "bytes" -> "noise"

Table(ph) ==
    CASE ph = "exec" -> machine.exec [] ph = "ram" -> machine.ram [] ph = "bytes" -> machine.bytes

\* Loader::load: stamps the boot program into ctrl and returns last_cycle.
LoaderStamp ==
    [x \in DOMAIN ctrl |->
        IF (x % steps) < (IF loaderFill THEN steps ELSE loadLast) THEN ONE ELSE ZERO]

\* compute_execute: Loader::new(..).load()
Load ==
    /\ pc = "load"
    /\ ctrl' = LoaderStamp
    /\ last_cycle' = loadLast
    /\ cycle' = 0
    /\ pc' = "inject_exec"
    /\ UNCHANGED <<inputs, data, io, machine, pending, failed, errPc, injected,
                   stepped, sorted, acc, written, readUninit, retried, rngDraws,
                   errors>>

\* One iteration of a `for cycle in ..last_cycle { inject_*_backs(cycle) }` loop.
InjectBacks(ph, ok) ==
    /\ mode = "par"
    /\ pc = InjectPc(ph)
    /\ cycle < last_cycle
    /\ injected' = [injected EXCEPT ![ph] = @ \cup {cycle}]
    /\ retried' = (retried \/ cycle \in injected[ph])
    /\ IF ok
       THEN /\ data' = InjectWrite(data, Table(ph), ph, cycle)
            /\ written' = written \cup BackCells(ph, cycle)
            /\ cycle' = cycle + 1
            /\ UNCHANGED <<pc, errPc, errors>>
       ELSE /\ pc' = "err"
            /\ errPc' = pc
            /\ errors' = errors + 1
            /\ UNCHANGED <<data, written, cycle>>
    /\ UNCHANGED <<inputs, ctrl, io, machine, last_cycle, pending, failed,
                   stepped, sorted, acc, readUninit, rngDraws>>

\* The loop is over (or compiled out by feature "seq"): build args, dispatch.
BeginStep(ph) ==
    /\ pc = InjectPc(ph)
    /\ mode = "par" => cycle >= last_cycle
    /\ pending' = 0 .. (last_cycle - 1)
    /\ failed' = FALSE
    /\ acc' = [c \in 0 .. (steps - 1) |-> NoAcc]
    /\ pc' = StepPc(ph)
    /\ UNCHANGED <<inputs, ctrl, data, io, machine, last_cycle, cycle, errPc,
                   injected, stepped, sorted, written, readUninit, retried,
                   rngDraws, errors>>

\* One step of the dispatch: any pending cycle in parallel mode, the least
\* pending cycle in sequential mode.
StepCycle(ph, c, ok) ==
    /\ pc = StepPc(ph)
    /\ c \in pending
    /\ mode = "seq" => c = Min(pending)
    /\ pending' = pending \ {c}
    /\ stepped' = [stepped EXCEPT ![ph] = @ \cup {c}]
    /\ retried' = (retried \/ c \in stepped[ph])
    /\ IF ok
       THEN /\ data' = StepWrite(data, Table(ph), ph, c)
            /\ acc' = [acc EXCEPT ![c] = [w |-> {Idx(Col(ph), c)},
                                          r |-> BackCells(ph, c),
                                          v |-> BackLoads(data, ph, c)]]
            /\ written' = written \cup {Idx(Col(ph), c)}
            /\ readUninit' = (readUninit \/ INVALID \in BackLoads(data, ph, c))
            /\ UNCHANGED <<pc, failed, errPc, errors>>
       ELSE /\ errors' = errors + 1
            /\ errPc' = IF errPc = "none" THEN pc ELSE errPc
            /\ IF mode = "seq"
               THEN pc' = "err" /\ failed' = failed
               ELSE pc' = pc /\ failed' = TRUE
            /\ UNCHANGED <<data, acc, written, readUninit>>
    /\ UNCHANGED <<inputs, ctrl, io, machine, last_cycle, cycle, injected,
                   sorted, rngDraws>>

\* The dispatch joins: every cycle was stepped, or a step failed and the
\* cycles not yet started are abandoned.
EndStep(ph) ==
    /\ pc = StepPc(ph)
    /\ pending = {} \/ failed
    /\ pc' = IF failed THEN "err" ELSE AfterPc(ph)
    /\ UNCHANGED <<inputs, ctrl, data, io, machine, last_cycle, cycle, pending,
                   failed, errPc, injected, stepped, sorted, acc, written,
                   readUninit, retried, rngDraws, errors>>

\* compute_verify_*: last_cycle = steps - ZK_CYCLES; machine.sort(key)?
Sort(key, at, first, ok) ==
    /\ pc = at
    /\ last_cycle' = steps - ZK_CYCLES
    /\ retried' = (retried \/ key \in sorted)
    /\ IF ok
       THEN /\ machine' = [machine EXCEPT ![key] = SortTable(@)]
            /\ sorted' = sorted \cup {key}
            /\ cycle' = first
            /\ pc' = InjectPc(key)
            /\ UNCHANGED <<errPc, errors>>
       ELSE /\ pc' = "err"
            /\ errPc' = pc
            /\ errors' = errors + 1
            /\ UNCHANGED <<machine, sorted, cycle>>
    /\ UNCHANGED <<inputs, ctrl, data, io, pending, failed, injected, stepped,
                   acc, written, readUninit, rngDraws>>

\* ---- compute_execute ----
\* Variant: the loop runs but its body injects nothing.
InjectExecBacks_NoWrite ==
    /\ mode = "par"
    /\ pc = "inject_exec"
    /\ cycle < last_cycle
    /\ injected' = [injected EXCEPT !["exec"] = @ \cup {cycle}]
    /\ cycle' = cycle + 1
    /\ UNCHANGED <<inputs, ctrl, data, io, machine, pc, last_cycle, pending, failed,
                   errPc, stepped, sorted, acc, written, readUninit, retried,
                   rngDraws, errors>>

InjectExecBacks == InjectBacks("exec", TRUE)

\* Variant: the dispatch does not wait for the end of the injection loop.
BeginStepExec_Early ==
    /\ pc = "inject_exec"
    /\ pending' = 0 .. (last_cycle - 1)
    /\ failed' = FALSE
    /\ acc' = [c \in 0 .. (steps - 1) |-> NoAcc]
    /\ pc' = "step_exec"
    /\ UNCHANGED <<inputs, ctrl, data, io, machine, last_cycle, cycle, errPc,
                   injected, stepped, sorted, written, readUninit, retried,
                   rngDraws, errors>>

BeginStepExec == BeginStep("exec")

StepExec(c) == \E ok \in BOOLEAN : StepCycle("exec", c, ok)

EndStepExec == EndStep("exec")

\* ---- compute_verify_ram ----
\* Variant: the result of machine.sort("ram") is dropped instead of propagated.
SortRam_Swallow ==
    \E ok \in BOOLEAN :
        /\ pc = "sort_ram"
        /\ last_cycle' = steps - ZK_CYCLES
        /\ machine' = IF ok THEN [machine EXCEPT !.ram = SortTable(@)] ELSE machine
        /\ sorted' = IF ok THEN sorted \cup {"ram"} ELSE sorted
        /\ errors' = IF ok THEN errors ELSE errors + 1
        /\ errPc' = IF ok THEN errPc ELSE pc
        /\ cycle' = 0
        /\ pc' = "inject_mem"
        /\ UNCHANGED <<inputs, ctrl, data, io, pending, failed, injected, stepped,
                       acc, written, readUninit, retried, rngDraws>>

SortRam == \E ok \in BOOLEAN : Sort("ram", "sort_ram", 0, ok)

InjectVerifyMemBacks == \E ok \in BOOLEAN : InjectBacks("ram", ok)

BeginStepVerifyMem == BeginStep("ram")

StepVerifyMem(c) == \E ok \in BOOLEAN : StepCycle("ram", c, ok)

\* Variant: the verify-mem dispatch is left while cycles are still pending.
EndStepVerifyMem_Early ==
    /\ pc = "step_mem"
    /\ pc' = IF failed THEN "err" ELSE "sort_bytes"
    /\ UNCHANGED <<inputs, ctrl, data, io, machine, last_cycle, cycle, pending,
                   failed, errPc, injected, stepped, sorted, acc, written,
                   readUninit, retried, rngDraws, errors>>

EndStepVerifyMem == EndStep("ram")

\* ---- compute_verify_bytes ----
SortBytes == \E ok \in BOOLEAN : Sort("bytes", "sort_bytes", 1, ok)

InjectVerifyBytesBacks == \E ok \in BOOLEAN : InjectBacks("bytes", ok)

BeginStepVerifyBytes == BeginStep("bytes")

StepVerifyBytes(c) == \E ok \in BOOLEAN : StepCycle("bytes", c, ok)

EndStepVerifyBytes == EndStep("bytes")

\* ---- finalization ----
ZkRows == (steps - ZK_CYCLES) .. (steps - 1)

\* Variant: the noise block zeroes ctrl at every cycle.
NoiseCtrl_AllCycles(cl) == [x \in DOMAIN cl |-> ZERO]

\* Variant: the noise block leaves ctrl as it is.
NoiseCtrl_Skip(cl) == cl

\* The noise block of execute: zero ctrl and draw data for the ZK_CYCLES rows.
NoiseCtrl(cl) == [x \in DOMAIN cl |-> IF (x % steps) \in ZkRows THEN ZERO ELSE cl[x]]

\* Variant: one draw is made and stored in every cell of the ZK rows.
NoiseData_OneDraw(d, s, n) ==
    [x \in DOMAIN d |-> IF (x % steps) \in ZkRows THEN RngDraw(s, n) ELSE d[x]]

\* The data part of the noise block: cycle steps - ZK_CYCLES + i, column j gets
\* the draw number i * data_size + j counted from n.
NoiseData(d, s, n) ==
    [x \in DOMAIN d |->
        IF (x % steps) \in ZkRows
        THEN RngDraw(s, n + ((x % steps) - (steps - ZK_CYCLES)) * DataSize + (x \div steps))
        ELSE d[x]]

Noise ==
    /\ pc = "noise"
    /\ ctrl' = NoiseCtrl(ctrl)
    /\ data' = NoiseData(data, seed, rngDraws)
    /\ rngDraws' = rngDraws + ZK_CYCLES * DataSize
    /\ written' = written \cup {x \in DOMAIN data : (x % steps) \in ZkRows}
    /\ pc' = "zeroize"
    /\ UNCHANGED <<inputs, io, machine, last_cycle, cycle, pending, failed, errPc,
                   injected, stepped, sorted, acc, readUninit, retried, errors>>

\* Variant: only data is sanitized, io is left out of the chain.
Zeroize_DataOnly ==
    /\ pc = "zeroize"
    /\ data' = [x \in DOMAIN data |-> valid_or_zero(data[x])]
    /\ pc' = "done"
    /\ UNCHANGED <<inputs, ctrl, io, machine, last_cycle, cycle, pending, failed,
                   errPc, injected, stepped, sorted, acc, written, readUninit,
                   retried, rngDraws, errors>>

\* The zeroize block of execute: valid_or_zero over data chained with io.
Zeroize ==
    /\ pc = "zeroize"
    /\ data' = [x \in DOMAIN data |-> valid_or_zero(data[x])]
    /\ io' = [x \in DOMAIN io |-> valid_or_zero(io[x])]
    /\ pc' = "done"
    /\ UNCHANGED <<inputs, ctrl, machine, last_cycle, cycle, pending, failed, errPc,
                   injected, stepped, sorted, acc, written, readUninit, retried,
                   rngDraws, errors>>

NextWitgen ==
    \/ Load /\ UNCHANGED <<bvars, hvars, lvars, ovars>>
    \/ InjectExecBacks /\ UNCHANGED <<bvars, hvars, lvars, ovars>>
    \/ BeginStepExec /\ UNCHANGED <<bvars, hvars, lvars, ovars>>
    \/ \E c \in 0 .. (steps - 1) : StepExec(c) /\ UNCHANGED <<bvars, hvars, lvars, ovars>>
    \/ EndStepExec /\ UNCHANGED <<bvars, hvars, lvars, ovars>>
    \/ SortRam /\ UNCHANGED <<bvars, hvars, lvars, ovars>>
    \/ InjectVerifyMemBacks /\ UNCHANGED <<bvars, hvars, lvars, ovars>>
    \/ BeginStepVerifyMem /\ UNCHANGED <<bvars, hvars, lvars, ovars>>
    \/ \E c \in 0 .. (steps - 1) : StepVerifyMem(c) /\ UNCHANGED <<bvars, hvars, lvars, ovars>>
    \/ EndStepVerifyMem /\ UNCHANGED <<bvars, hvars, lvars, ovars>>
    \/ SortBytes /\ UNCHANGED <<bvars, hvars, lvars, ovars>>
    \/ InjectVerifyBytesBacks /\ UNCHANGED <<bvars, hvars, lvars, ovars>>
    \/ BeginStepVerifyBytes /\ UNCHANGED <<bvars, hvars, lvars, ovars>>
    \/ \E c \in 0 .. (steps - 1) : StepVerifyBytes(c) /\ UNCHANGED <<bvars, hvars, lvars, ovars>>
    \/ EndStepVerifyBytes /\ UNCHANGED <<bvars, hvars, lvars, ovars>>
    \/ Noise /\ UNCHANGED <<bvars, hvars, lvars, ovars>>
    \/ Zeroize /\ UNCHANGED <<bvars, hvars, lvars, ovars>>

SpecWitgen == InitWitgen /\ [][NextWitgen]_vars

(***************************************************************************)
(* The sequential reference: what the plain loops of feature "seq" compute *)
(* from the inputs alone.                                                  *)
(***************************************************************************)
InitData == [x \in DOMAIN data |-> INVALID]

Machine0 == MachineNew(steps, trace)

\* for cycle in 0..last_cycle { step_exec(cycle) }
SeqExecData == SeqLoop(InitData, Machine0.exec, "exec", loadLast)

\* sort("ram"); for cycle in 0..last_cycle { step_verify_mem(cycle) }
SeqRamData == SeqLoop(SeqExecData, SortTable(Machine0.ram), "ram", Rows)

\* sort("bytes"); for cycle in 0..last_cycle { step_verify_bytes(cycle) }
SeqBytesData == SeqLoop(SeqRamData, SortTable(Machine0.bytes), "bytes", Rows)

StepPcs == {"step_exec", "step_mem", "step_bytes"}

Rank(p) ==
    CASE p = "load" -> 1 [] p = "inject_exec" -> 2 [] p = "step_exec" -> 3
      [] p = "sort_ram" -> 4 [] p = "inject_mem" -> 5 [] p = "step_mem" -> 6
      [] p = "sort_bytes" -> 7 [] p = "inject_bytes" -> 8 [] p = "step_bytes" -> 9
      [] p = "noise" -> 10 [] p = "zeroize" -> 11 [] p = "done" -> 12

\* The stage execute() is in; the stage it failed in once it returned Err.
Pos == IF pc = "err" THEN Rank(errPc) ELSE Rank(pc)

\* The cycles a phase steps, and the cycles its injection loop visits.
StepRange(ph) == 0 .. ((IF ph = "exec" THEN loadLast ELSE Rows) - 1)

InjectRange(ph) == (IF ph = "bytes" THEN 1 ELSE 0) .. ((IF ph = "exec" THEN loadLast ELSE Rows) - 1)

\* The back cells of cycle 0 that the injection loops of phases phs stored.
StoredForZero(phs) == UNION {BackCells(ph, 0) : ph \in {q \in phs : 0 \in InjectRange(q)}}

\* Data d after the injection loops of phases phs have also run: the cells
\* stored for cycle 0 that no step wrote hold the initial back state.
WithBacks(d, phs) ==
    IF mode = "seq" THEN d
    ELSE [x \in DOMAIN d |->
             IF d[x] = INVALID /\ x \in StoredForZero(phs) THEN ZERO ELSE d[x]]

\* The data at the join of each phase.
JoinExecData == WithBacks(SeqExecData, {"exec"})

JoinRamData == WithBacks(SeqRamData, {"exec", "ram"})

JoinBytesData == WithBacks(SeqBytesData, Phases)

C2_NoSharedCells ==
    mode = "par" =>
        /\ pc \in StepPcs =>
            \A c1, c2 \in 0 .. (steps - 1) :
                c1 # c2 => /\ acc[c1].w \cap acc[c2].w = {}
                           /\ acc[c1].r \cap acc[c2].w = {}
        /\ pc = "sort_ram" => data = JoinExecData
        /\ pc = "sort_bytes" => data = JoinRamData
        /\ pc = "noise" => data = JoinBytesData

(***************************************************************************)
(* C3: in parallel mode the work of execute is done in the order load,     *)
(* inject_exec_backs (increasing cycles), exec steps, sort("ram"),         *)
(* inject_verify_mem_backs, verify-mem steps, sort("bytes"),               *)
(* inject_verify_bytes_backs, verify-bytes steps, noise, sanitize: at      *)
(* every moment the operations done so far are exactly those of the stages *)
(* before the current one, all of them, plus a prefix of the current       *)
(* injection loop or a part of the current dispatch.                       *)
(***************************************************************************)
C3_PhaseOrder ==
    mode = "par" =>
        /\ \A ph \in Phases :
            /\ Pos < Rank(InjectPc(ph)) => injected[ph] = {}
            /\ Pos = Rank(InjectPc(ph)) =>
                   injected[ph] = Min(InjectRange(ph) \cup {cycle}) ..
                                      (IF pc = "err" THEN cycle ELSE cycle - 1)
            /\ Pos > Rank(InjectPc(ph)) => injected[ph] = InjectRange(ph)
            /\ Pos < Rank(StepPc(ph)) => stepped[ph] = {}
            /\ Pos = Rank(StepPc(ph)) =>
                   /\ stepped[ph] \subseteq StepRange(ph)
                   /\ pc # "err" => stepped[ph] \cup pending = StepRange(ph)
            /\ Pos > Rank(StepPc(ph)) => stepped[ph] = StepRange(ph)
        /\ ("ram" \in sorted) <=> (Pos > Rank("sort_ram"))
        /\ ("bytes" \in sorted) <=> (Pos > Rank("sort_bytes"))
        /\ (Pos > Rank("load")) => ctrl \in {LoaderStamp, NoiseCtrl(LoaderStamp)}
        /\ rngDraws = IF Pos > Rank("noise") THEN ZK_CYCLES * DataSize ELSE 0
        /\ Pos < Rank("done") => io = io0

\* A parallel run whose three phases all injected and stepped, ended Ok.
C3_Witness ==
    /\ mode = "par"
    /\ pc = "done"
    /\ loadLast >= 2
    /\ \A ph \in Phases : injected[ph] # {} /\ stepped[ph] # {}

(***************************************************************************)
(* C4: when execute returns Ok no cell of data and no cell of io is        *)
(* INVALID, whatever po2, io and trace were, and every cell of data that   *)
(* nothing wrote is ZERO.                                                  *)
(***************************************************************************)
C4_NoInvalidAfterOk ==
    pc = "done" =>
        /\ \A x \in DOMAIN data : data[x] # INVALID
        /\ \A x \in DOMAIN data : x \notin written => data[x] = ZERO
        /\ \A i \in DOMAIN io : io[i] # INVALID

\* Ok after a run whose caller io held INVALID and that left cells unwritten.
C4_Witness ==
    /\ pc = "done"
    /\ \E i \in DOMAIN io0 : io0[i] = INVALID
    /\ \E x \in DOMAIN data : x \notin written

(***************************************************************************)
(* C5: execute short-circuits on the first failure: once an operation has  *)
(* returned Err, execute returns Err (at once, or at the join of the       *)
(* running dispatch), no operation of a later stage, no noise write and    *)
(* no sanitization has happened, and nothing was run twice; Ok is          *)
(* returned only when nothing failed.                                      *)
(***************************************************************************)
C5_ShortCircuit ==
    /\ pc = "done" => errors = 0
    /\ ~retried
    /\ errors >= 1 =>
        /\ \/ pc = "err"
           \/ mode = "par" /\ failed /\ pc = errPc /\ pc \in StepPcs
        /\ mode = "seq" => errors = 1
        /\ \A ph \in Phases :
            /\ Rank(InjectPc(ph)) > Rank(errPc) => injected[ph] = {}
            /\ Rank(StepPc(ph)) > Rank(errPc) => stepped[ph] = {}
        /\ "ram" \in sorted => Rank(errPc) > Rank("sort_ram")
        /\ "bytes" \in sorted => Rank(errPc) > Rank("sort_bytes")
        /\ rngDraws = 0
        /\ ctrl = LoaderStamp
        /\ \A x \in DOMAIN data : x \notin written => data[x] = INVALID
        /\ io = io0

\* Err returned from the verify-mem dispatch, data still holding INVALID.
C5_Witness ==
    /\ pc = "err"
    /\ errPc = "step_mem"
    /\ \E x \in DOMAIN data : (x % steps) < Rows /\ data[x] = INVALID
    /\ \E i \in DOMAIN io : io[i] = INVALID

(***************************************************************************)
(* The buffer machine: BufferImpl<T>, RawBuffer and the allocation tracker *)
(* (cuda.rs).  A store is one RawBuffer behind its Rc<RefCell<..>>; a view *)
(* is one BufferImpl value.  The strong count of the Rc is the number of   *)
(* live views of the store.                                                *)
(***************************************************************************)
\* The witness generator before WitnessGenerator::new, held fixed by the
\* other machines.
WitgenIdle ==
    /\ mode = "par"
    /\ steps = 0
    /\ ctrl = <<>>
    /\ data = <<>>
    /\ io0 = <<>>
    /\ io = <<>>
    /\ trace = 0
    /\ seed = 0
    /\ loadLast = 0
    /\ loaderFill = FALSE
    /\ backAtZero = "none"
    /\ is_fwd = TRUE
    /\ machine = <<>>
    /\ pc = "idle"
    /\ last_cycle = 0
    /\ cycle = 0
    /\ pending = {}
    /\ failed = FALSE
    /\ errPc = "none"
    /\ injected = <<>>
    /\ stepped = <<>>
    /\ sorted = {}
    /\ acc = <<>>
    /\ written = {}
    /\ readUninit = FALSE
    /\ retried = FALSE
    /\ rngDraws = 0
    /\ errors = 0

Vals == 0 .. MaxVal

\* The host slices of 1 .. MaxLen elements.
Slices == UNION {[1 .. n -> Vals] : n \in 1 .. MaxLen}

Live(v) == views[v].store # 0

LiveViews == {v \in 1 .. MaxViews : Live(v)}

FreeSlots == {v \in 1 .. MaxViews : ~Live(v)}

\* Rc::strong_count of store s.
StrongCount(s) == Cardinality({v \in LiveViews : views[v].store = s})

\* Tracker::alloc and Tracker::free.
TrackerAlloc(t, bytes) == t + bytes

TrackerFree(t, bytes) == t - bytes

\* The bytes of the stores that exist.
RECURSIVE BytesFrom(_)
BytesFrom(s) ==
    IF s > Len(stores) THEN 0
    ELSE (IF stores[s].live THEN stores[s].bytes ELSE 0) + BytesFrom(s + 1)

LiveBytes == BytesFrom(1)

\* The ways DeviceBuffer::uninitialized can end: the driver may refuse an
\* allocation (out of memory); one refusal is followed per run.
AllocOutcomes == IF tracker = LiveBytes THEN BOOLEAN ELSE {TRUE}

\* RawBuffer::new followed by Rc::new: the tracker is charged first, then
\* the device memory is allocated.  When the allocation succeeds the device
\* memory holds whatever mem is; when it fails the unwrap panics, no
\* RawBuffer exists and the charge stays on the tracker.
RawBufferNew(mem, bytes, ok) ==
    /\ tracker' = TrackerAlloc(tracker, bytes)
    /\ IF ok
       THEN stores' = Append(stores, [mem |-> mem, bytes |-> bytes, live |-> TRUE])
       ELSE UNCHANGED stores

NewView(s, offset, size, sum, rel, psize) ==
    views' = [views EXCEPT ![Min(FreeSlots)] =
                 [store |-> s, offset |-> offset, size |-> size,
                  sum |-> sum, rel |-> rel, psize |-> psize]]

\* BufferImpl::new(name, size): device memory is uninitialized, so its
\* contents are any values.
Alloc(size, mem, ok) ==
    /\ ~aborted
    /\ ItemSize * size > 0
    /\ Len(mem) = size
    /\ Len(stores) < MaxStores
    /\ FreeSlots # {}
    /\ RawBufferNew(mem, ItemSize * size, ok)
    /\ IF ok THEN NewView(Len(stores) + 1, 0, size, 0, 0, size) ELSE UNCHANGED views
    /\ UNCHANGED <<released, lastSlice, aborted>>

\* BufferImpl::<T>::copy_from(name, slice) for elements of item bytes:
\* bytes_len = std::mem::size_of_val(slice).
CopyFromOf(item, slice, ok) ==
    /\ ~aborted
    /\ item * Len(slice) > 0
    /\ Len(stores) < MaxStores
    /\ FreeSlots # {}
    /\ RawBufferNew(slice, item * Len(slice), ok)
    /\ IF ok THEN NewView(Len(stores) + 1, 0, Len(slice), 0, 0, Len(slice))
             ELSE UNCHANGED views
    /\ UNCHANGED <<released, lastSlice, aborted>>

\* BufferImpl::copy_from(name, slice) of BabyBearElem or u32 elements.
CopyFrom(slice, ok) == CopyFromOf(ItemSize, slice, ok)

\* usize::MAX at the width of the model.
USIZE_MAX == 2 ^ UsizeBits - 1

\* The outcome of an addition that panicked.
Overflowed == -1

\* a + b on usize.  A sum that does not fit in usize panics in a build with
\* overflow checks and wraps around in a build without them.
usize_add(a, b, checks) ==
    IF a + b <= USIZE_MAX THEN a + b
    ELSE IF checks THEN Overflowed ELSE (a + b) % (USIZE_MAX + 1)

\* assert!(offset + size <= self.size()) on the sum as it was computed.
SliceAssert(v, sum) == sum # Overflowed /\ sum <= views[v].size

\* Buffer::slice(&self, offset, size) in a build with or without overflow
\* checks: the assertion fails and nothing is built, or the new BufferImpl
\* shares the store, at self.offset + offset as that sum was computed.
SliceIn(v, offset, size, checks) ==
    LET sum == usize_add(offset, size, checks)
        at == usize_add(views[v].offset, offset, checks)
        ok == SliceAssert(v, sum) /\ at # Overflowed
    IN  /\ lastSlice' = [res |-> IF ok THEN "ok" ELSE "panic",
                         over |-> offset + size > views[v].size]
        /\ IF ok
           THEN /\ FreeSlots # {}
                /\ NewView(views[v].store, at, size,
                             Min({views[v].sum + offset, USIZE_MAX + 1}),
                             offset, views[v].size)
           ELSE UNCHANGED views

\* The builds that differ on a call of slice: with overflow checks (TRUE) and
\* without (FALSE) when one of its two sums does not fit, else any one.
Builds(v, offset, size) ==
    IF offset + size > USIZE_MAX \/ views[v].offset + offset > USIZE_MAX
    THEN BOOLEAN ELSE {TRUE}

\* Buffer::slice(&self, offset, size).
BufSlice(v, offset, size) ==
    /\ ~aborted
    /\ Live(v)
    /\ \E checks \in Builds(v, offset, size) : SliceIn(v, offset, size, checks)
    /\ UNCHANGED <<stores, tracker, released, aborted>>

\* #[derive(Clone)] on BufferImpl: every field is cloned, the Rc included.
BufClone(v) ==
    /\ ~aborted
    /\ Live(v)
    /\ FreeSlots # {}
    /\ views' = [views EXCEPT ![Min(FreeSlots)] = views[v]]
    /\ UNCHANGED <<stores, tracker, released, lastSlice, aborted>>

\* Drop of RawBuffer: the tracker is credited buf.len() bytes and the device
\* memory is gone.
RawBufferDrop(s) ==
    /\ tracker' = TrackerFree(tracker, stores[s].bytes)
    /\ stores' = [stores EXCEPT ![s].live = FALSE, ![s].mem = <<>>]
    /\ released' = [released EXCEPT ![s] = @ + 1]

\* Drop of a BufferImpl that frees the store whatever the strong count.
BufDrop_IgnoreCount(v) ==
    /\ ~aborted
    /\ Live(v)
    /\ views' = [views EXCEPT ![v] = NoView]
    /\ RawBufferDrop(views[v].store)
    /\ UNCHANGED <<lastSlice, aborted>>

\* Drop of a BufferImpl: the Rc is released, and the RawBuffer is dropped
\* with the last strong reference.
BufDrop(v) ==
    /\ ~aborted
    /\ Live(v)
    /\ views' = [views EXCEPT ![v] = NoView]
    /\ IF StrongCount(views[v].store) = 1
         THEN RawBufferDrop(views[v].store)
         ELSE UNCHANGED <<stores, tracker, released>>
    /\ UNCHANGED <<lastSlice, aborted>>

\* What lies at an address outside the store.
Foreign == -1

\* The elements [from, from + n) of a device store, read as the device
\* returns them.
DeviceRead(mem, from, n) ==
    [i \in 1 .. n |-> IF from + i <= Len(mem) THEN mem[from + i] ELSE Foreign]

\* Buffer::get_at(&self, idx).
GetAt(v, idx) == DeviceRead(stores[views[v].store].mem, views[v].offset + idx, 1)[1]

\* The slice Buffer::view hands to its callback.
ViewSlice(v) == DeviceRead(stores[views[v].store].mem, views[v].offset, views[v].size)

\* The slice Buffer::view_mut hands to its callback: &mut slice[self.offset..]
\* of the whole store.
ViewMutSlice(v) ==
    DeviceRead(stores[views[v].store].mem, views[v].offset,
               Len(stores[views[v].store].mem) - views[v].offset)

\* Buffer::get_at(idx) as a call, for the indices that lie inside the store:
\* a read, the device memory is left alone.
BufGetAt(v, idx) ==
    /\ ~aborted
    /\ Live(v)
    /\ views[v].offset + idx < Len(stores[views[v].store].mem)
    /\ UNCHANGED <<stores, views, tracker, released, lastSlice, aborted>>

\* The ways unchecked_cast can end on a host vector of n elements.  For
\* n = 0 the pointer of the empty Vec<u8> is dangling and not aligned for
\* the element type, and slice::from_raw_parts on it is undefined behaviour:
\* a build with debug assertions aborts the process (TRUE), a build without
\* them returns the empty slice (FALSE).
CastAborts(n) == IF n = 0 THEN BOOLEAN ELSE {FALSE}

\* Buffer::view(f): a read, the device memory is left alone (also when the
\* read is refused and the unwrap panics).
BufView(v) ==
    /\ ~aborted
    /\ Live(v)
    /\ aborted' \in CastAborts(views[v].size)
    /\ UNCHANGED <<stores, views, tracker, released, lastSlice>>

\* The host copy of store memory mem after the callback stored x in each of
\* the n elements from offset on.
Filled(mem, offset, n, x) ==
    [i \in 1 .. Len(mem) |-> IF i > offset /\ i <= offset + n THEN x ELSE mem[i]]

\* Buffer::view_mut(f) where f stores x in every element of the slice it is
\* given; the host copy of the whole store is then written back.  The index
\* slice[self.offset..] panics when the offset lies past the end of the
\* store, before f runs.
BufViewMut(v, x) ==
    /\ ~aborted
    /\ Live(v)
    /\ IF views[v].offset > Len(stores[views[v].store].mem)
       THEN UNCHANGED stores
       ELSE stores' = [stores EXCEPT ![views[v].store].mem =
                          Filled(@, views[v].offset, Len(ViewMutSlice(v)), x)]
    /\ UNCHANGED <<views, tracker, released, lastSlice, aborted>>

InitBuf == WitgenIdle /\ BufIdle /\ HalIdle /\ LockIdle /\ OpsIdle

NextBuf ==
    \/ \E n \in 1 .. MaxLen : \E mem \in [1 .. n -> Vals] : \E ok \in AllocOutcomes : Alloc(n, mem, ok) /\ UNCHANGED <<wvars, hvars, lvars, ovars>>
    \/ \E slice \in Slices : \E ok \in AllocOutcomes : CopyFrom(slice, ok) /\ UNCHANGED <<wvars, hvars, lvars, ovars>>
    \/ \E v \in 1 .. MaxViews : \E o, n \in 0 .. MaxLen : BufSlice(v, o, n) /\ UNCHANGED <<wvars, hvars, lvars, ovars>>
    \/ \E v \in 1 .. MaxViews : BufClone(v) /\ UNCHANGED <<wvars, hvars, lvars, ovars>>
    \/ \E v \in 1 .. MaxViews : BufDrop(v) /\ UNCHANGED <<wvars, hvars, lvars, ovars>>
    \/ \E v \in 1 .. MaxViews : \E i \in 0 .. (MaxLen - 1) : BufGetAt(v, i) /\ UNCHANGED <<wvars, hvars, lvars, ovars>>
    \/ \E v \in 1 .. MaxViews : BufView(v) /\ UNCHANGED <<wvars, hvars, lvars, ovars>>
    \/ \E v \in 1 .. MaxViews : \E x \in Vals : BufViewMut(v, x) /\ UNCHANGED <<wvars, hvars, lvars, ovars>>

SpecBuf == InitBuf /\ [][NextBuf]_vars

(***************************************************************************)
(* The buffer machine under slice calls with any arguments, the largest    *)
(* usize included, on one buffer of zeros.                                 *)
(***************************************************************************)
SliceArgs == (0 .. MaxLen) \cup {USIZE_MAX}

\* The calls of slice made on view v: any small arguments, and the largest
\* usize as offset or as length on a view that starts where its store does.
SliceCalls(v) ==
    ((0 .. MaxLen) \X (0 .. MaxLen))
        \cup (IF views[v].sum = 0
              THEN ({USIZE_MAX} \X SliceArgs) \cup (SliceArgs \X {USIZE_MAX})
              ELSE {})

InitSlice == WitgenIdle /\ BufIdle /\ HalIdle /\ LockIdle /\ OpsIdle

NextSlice ==
    \/ \E n \in 1 .. MaxLen : stores = <<>> /\ CopyFrom([i \in 1 .. n |-> 0], TRUE) /\ UNCHANGED <<wvars, hvars, lvars, ovars>>
    \/ \E v \in 1 .. MaxViews : \E a \in SliceCalls(v) : BufSlice(v, a[1], a[2]) /\ UNCHANGED <<wvars, hvars, lvars, ovars>>
    \/ \E v \in 1 .. MaxViews : BufDrop(v) /\ UNCHANGED <<wvars, hvars, lvars, ovars>>
    \/ \E v \in 1 .. MaxViews : BufView(v) /\ UNCHANGED <<wvars, hvars, lvars, ovars>>
    \/ \E v \in 1 .. MaxViews : BufViewMut(v, MaxVal) /\ UNCHANGED <<wvars, hvars, lvars, ovars>>

SpecSlice == InitSlice /\ [][NextSlice]_vars

(***************************************************************************)
(* The stream machine: the HAL operations of CudaHal that launch a kernel  *)
(* on self.stream.  A launch appends the kernel to the stream; the device  *)
(* completes the kernels of the stream in order, at its own pace;          *)
(* stream.synchronize() returns when the stream is empty.                  *)
(***************************************************************************)
Suites == {"sha256", "poseidon", "poseidon2"}

\* launch!(kernel<<<.., stream>>>(..)): the kernel of call id, writing device
\* buffer out, with temps telling whether it was given temporaries.
Launch(q, id, op, out, temps) ==
    Append(q, [id |-> id, op |-> op, out |-> out, temps |-> temps])

\* The device finishes kernel k: its output buffer now holds its result.
Complete(d, k) == [d EXCEPT ![k.out] = k.op]

\* stream.synchronize(): every kernel of the stream completes, in order.
RECURSIVE Synchronize(_, _)
Synchronize(q, d) ==
    IF q = <<>> THEN d ELSE Synchronize(Tail(q), Complete(d, Head(q)))

\* The temporaries a call allocated are dropped when it returns.
DropTemps(q, id) ==
    [i \in 1 .. Len(q) |->
        IF q[i].id = id /\ q[i].temps = "live"
        THEN [q[i] EXCEPT !.temps = "dropped"] ELSE q[i]]

\* A HAL call that panics before it has queued a kernel: on one of its
\* assert_eq! size checks, or on the unwrap of a launch that the driver
\* refuses.  The temporaries it had allocated are dropped by the unwinding.
HalPanic(op) ==
    /\ hcalls < MaxCalls
    /\ hcalls' = hcalls + 1
    /\ lastCall' = [id |-> hcalls + 1, op |-> "panic"]
    /\ UNCHANGED <<queue, dev, dangling>>

\* A HAL call that launches one kernel and then synchronises the stream.
LaunchAndSync(op, out, temps) ==
    /\ hcalls < MaxCalls
    /\ hcalls' = hcalls + 1
    /\ dev' = Synchronize(Launch(queue, hcalls + 1, op, out, temps), dev)
    /\ queue' = <<>>
    /\ dangling' = (dangling \/ \E i \in 1 .. Len(queue) : queue[i].temps = "dropped")
    /\ lastCall' = [id |-> hcalls + 1, op |-> op]

\* A HAL call that launches one kernel and returns.
LaunchOnly(op, out, temps) ==
    /\ hcalls < MaxCalls
    /\ hcalls' = hcalls + 1
    /\ queue' = DropTemps(Launch(queue, hcalls + 1, op, out, temps), hcalls + 1)
    /\ lastCall' = [id |-> hcalls + 1, op |-> op]
    /\ UNCHANGED <<dev, dangling>>

\* CudaHash::hash_fold of the three suites, through Hal::hash_fold.
HashFold(suite, buf, pre) ==
    IF pre THEN LaunchAndSync("hash_fold", buf, "none") ELSE HalPanic("hash_fold")

\* CudaHash::hash_rows of the three suites, through Hal::hash_rows.
HashRows(suite, output, pre) ==
    IF pre THEN LaunchAndSync("hash_rows", output, "none") ELSE HalPanic("hash_rows")

BatchBitReverse(buf, pre) ==
    IF pre THEN LaunchAndSync("batch_bit_reverse", buf, "none")
    ELSE HalPanic("batch_bit_reverse")

BatchEvaluateAny(out, pre) ==
    IF pre THEN LaunchAndSync("batch_evaluate_any", out, "none")
    ELSE HalPanic("batch_evaluate_any")

\* gather_sample: launch!(..).unwrap() is its last statement.
GatherSample(dst, pre) ==
    IF pre THEN LaunchOnly("gather_sample", dst, "none") ELSE HalPanic("gather_sample")

\* mix_poly_coeffs: mix_start and mix are device temporaries handed to the
\* kernel; launch!(..).unwrap() is its last statement.
MixPolyCoeffs(output, pre) ==
    IF pre THEN LaunchOnly("mix_poly_coeffs", output, "live")
    ELSE HalPanic("mix_poly_coeffs")

EltwiseAddElem(output, pre) ==
    IF pre THEN LaunchAndSync("eltwise_add_elem", output, "none")
    ELSE HalPanic("eltwise_add_elem")

EltwiseSumExtelem(output, pre) ==
    IF pre THEN LaunchAndSync("eltwise_sum_extelem", output, "none")
    ELSE HalPanic("eltwise_sum_extelem")

EltwiseCopyElem(output, pre) ==
    IF pre THEN LaunchAndSync("eltwise_copy_elem", output, "none")
    ELSE HalPanic("eltwise_copy_elem")

\* fri_fold: mix is a device temporary, dropped after the synchronize.
FriFold(output, pre) ==
    IF pre THEN LaunchAndSync("fri_fold", output, "live") ELSE HalPanic("fri_fold")

\* The device completes the kernel at the head of the stream.
KernelComplete ==
    /\ queue # <<>>
    /\ dev' = Complete(dev, Head(queue))
    /\ queue' = Tail(queue)
    /\ dangling' = (dangling \/ Head(queue).temps = "dropped")
    /\ UNCHANGED <<hcalls, lastCall>>

InitHal == WitgenIdle /\ BufIdle /\ HalIdle /\ LockIdle /\ OpsIdle

NextHal ==
    \/ \E h \in Suites, b \in 1 .. HalBufs, pre \in BOOLEAN : HashFold(h, b, pre) /\ UNCHANGED <<wvars, bvars, lvars, ovars>>
    \/ \E h \in Suites, b \in 1 .. HalBufs, pre \in BOOLEAN : HashRows(h, b, pre) /\ UNCHANGED <<wvars, bvars, lvars, ovars>>
    \/ \E b \in 1 .. HalBufs, pre \in BOOLEAN : BatchBitReverse(b, pre) /\ UNCHANGED <<wvars, bvars, lvars, ovars>>
    \/ \E b \in 1 .. HalBufs, pre \in BOOLEAN : BatchEvaluateAny(b, pre) /\ UNCHANGED <<wvars, bvars, lvars, ovars>>
    \/ \E b \in 1 .. HalBufs, pre \in BOOLEAN : GatherSample(b, pre) /\ UNCHANGED <<wvars, bvars, lvars, ovars>>
    \/ \E b \in 1 .. HalBufs, pre \in BOOLEAN : MixPolyCoeffs(b, pre) /\ UNCHANGED <<wvars, bvars, lvars, ovars>>
    \/ \E b \in 1 .. HalBufs, pre \in BOOLEAN : EltwiseAddElem(b, pre) /\ UNCHANGED <<wvars, bvars, lvars, ovars>>
    \/ \E b \in 1 .. HalBufs, pre \in BOOLEAN : EltwiseSumExtelem(b, pre) /\ UNCHANGED <<wvars, bvars, lvars, ovars>>
    \/ \E b \in 1 .. HalBufs, pre \in BOOLEAN : EltwiseCopyElem(b, pre) /\ UNCHANGED <<wvars, bvars, lvars, ovars>>
    \/ \E b \in 1 .. HalBufs, pre \in BOOLEAN : FriFold(b, pre) /\ UNCHANGED <<wvars, bvars, lvars, ovars>>
    \/ KernelComplete /\ UNCHANGED <<wvars, bvars, lvars, ovars>>

SpecHal == InitHal /\ [][NextHal]_vars

(***************************************************************************)
(* The lock machine: singleton(), CudaHal::new and the drop of a CudaHal.  *)
(* The fields of CudaHal are dropped in declaration order: module, hash,   *)
(* _context, _lock, stream; the guard is released before the stream is     *)
(* destroyed.                                                              *)
(***************************************************************************)
Threads == 1 .. MaxThreads

\* ReentrantMutex::lock can return on thread t.
CanLock(t) == owner = 0 \/ owner = t

\* Drop of a ReentrantMutexGuard.
Unlock ==
    /\ count' = count - 1
    /\ owner' = IF count = 1 THEN 0 ELSE owner

\* Thread t calls CudaHal::new and reaches singleton().lock().
NewCall(t) ==
    /\ tpc[t] = "idle"
    /\ hals[t] < MaxHals
    /\ tpc' = [tpc EXCEPT ![t] = "locking"]
    /\ UNCHANGED <<owner, count, hals, streams>>

\* The ways CudaHal::new can end once the lock is held: it returns the
\* CudaHal ("ok"); an unwrap or sppark_init panics before the struct is
\* built ("panic"); or CH::new(&hal) panics after it is built
\* ("hash_panic").
NewOutcomes == {"ok", "panic", "hash_panic"}

\* CudaHal::new where the lock is granted to any thread that asks.
NewReturn_NoLock(t, out) ==
    /\ tpc[t] = "locking"
    /\ CASE out = "ok" ->
              /\ owner' = t
              /\ count' = count + 1
              /\ hals' = [hals EXCEPT ![t] = @ + 1]
              /\ streams' = [streams EXCEPT ![t] = @ + 1]
              /\ tpc' = [tpc EXCEPT ![t] = "idle"]
         [] out = "panic" ->
              /\ tpc' = [tpc EXCEPT ![t] = "idle"]
              /\ UNCHANGED <<owner, count, hals, streams>>
         [] OTHER ->
              /\ streams' = [streams EXCEPT ![t] = @ + 1]
              /\ tpc' = [tpc EXCEPT ![t] = "drop_stream"]
              /\ UNCHANGED <<owner, count, hals>>

\* The rest of CudaHal::new on thread t: the lock is taken, then the module,
\* the stream and the hash suite are created.  A failing unwrap or
\* sppark_init panics before the struct is built: the unwinding drops the
\* locals in reverse order, the guard last, and the thread goes on where the
\* panic is caught.  When CH::new(&hal) panics the struct exists, and the
\* unwinding drops its fields in declaration order: the guard is released
\* (the lock is as it was before the call) while the stream, which is the
\* last field, is still to be destroyed.
NewReturn(t, out) ==
    /\ tpc[t] = "locking"
    /\ CanLock(t)
    /\ CASE out = "ok" ->
              /\ owner' = t
              /\ count' = count + 1
              /\ hals' = [hals EXCEPT ![t] = @ + 1]
              /\ streams' = [streams EXCEPT ![t] = @ + 1]
              /\ tpc' = [tpc EXCEPT ![t] = "idle"]
         [] out = "panic" ->
              /\ tpc' = [tpc EXCEPT ![t] = "idle"]
              /\ UNCHANGED <<owner, count, hals, streams>>
         [] OTHER ->
              /\ streams' = [streams EXCEPT ![t] = @ + 1]
              /\ tpc' = [tpc EXCEPT ![t] = "drop_stream"]
              /\ UNCHANGED <<owner, count, hals>>

\* Drop of a CudaHal on thread t, up to and including the field _lock.
DropHal(t) ==
    /\ tpc[t] = "idle"
    /\ hals[t] > 0
    /\ hals' = [hals EXCEPT ![t] = @ - 1]
    /\ Unlock
    /\ tpc' = [tpc EXCEPT ![t] = "drop_stream"]
    /\ UNCHANGED streams

\* The end of the drop: the field stream is destroyed.
DropStream(t) ==
    /\ tpc[t] = "drop_stream"
    /\ streams' = [streams EXCEPT ![t] = @ - 1]
    /\ tpc' = [tpc EXCEPT ![t] = "idle"]
    /\ UNCHANGED <<owner, count, hals>>

InitLock == WitgenIdle /\ BufIdle /\ HalIdle /\ LockIdle /\ OpsIdle

NextLock ==
    \/ \E t \in Threads : NewCall(t) /\ UNCHANGED <<wvars, bvars, hvars, ovars>>
    \/ \E t \in Threads, out \in NewOutcomes : NewReturn(t, out) /\ UNCHANGED <<wvars, bvars, hvars, ovars>>
    \/ \E t \in Threads : DropHal(t) /\ UNCHANGED <<wvars, bvars, hvars, ovars>>
    \/ \E t \in Threads : DropStream(t) /\ UNCHANGED <<wvars, bvars, hvars, ovars>>

SpecLock == InitLock /\ [][NextLock]_vars

(***************************************************************************)
(* C6.  Every HAL operation that launches a kernel on the stream returns   *)
(* only after that kernel has completed: once a call has returned, the     *)
(* kernel it launched is no longer pending on the stream.                  *)
(***************************************************************************)
C6_ReturnAfterCompletion ==
    \A i \in 1 .. Len(queue) : queue[i].id # lastCall.id

(***************************************************************************)
(* C7.  Provers serialise at the lock: no two threads own a live CudaHal   *)
(* at once; the lock is held by the one thread that owns CudaHal values,   *)
(* once per value; a thread inside CudaHal::new can return exactly when no *)
(* other thread owns a CudaHal, so a thread that already owns one is not   *)
(* blocked when it constructs another.                                     *)
(***************************************************************************)
C7_LockSerialisesThreads ==
    /\ \A t, u \in Threads : (hals[t] > 0 /\ hals[u] > 0) => t = u
    /\ \A t \in Threads : hals[t] > 0 => (owner = t /\ count = hals[t])
    /\ \A t \in Threads :
        tpc[t] = "locking" =>
            ((ENABLED NewReturn(t, "ok")) <=> (\A u \in Threads \ {t} : hals[u] = 0))

\* A thread has constructed CudaHal values re-entrantly while another thread
\* waits in CudaHal::new.
C7_Witness ==
    \E t, u \in Threads :
        /\ t # u
        /\ hals[t] = MaxHals
        /\ count = MaxHals
        /\ tpc[u] = "locking"
        /\ ~ENABLED NewReturn(u, "ok")

(***************************************************************************)
(* C8.  view and view_mut hand their callbacks the same window of the      *)
(* store: for a view of size s at offset o, the slice handed to the        *)
(* view_mut callback has exactly s elements and they are the elements      *)
(* [o, o + s) of the store, as for view.                                   *)
(***************************************************************************)
C8_ViewMutHandsViewWindow ==
    [][\A v \in 1 .. MaxViews : \A x \in Vals :
          BufViewMut(v, x) =>
              /\ Len(ViewMutSlice(v)) = views[v].size
              /\ ViewMutSlice(v) = ViewSlice(v)
              /\ ViewSlice(v)' = [i \in 1 .. views[v].size |-> x]]_vars

(***************************************************************************)
(* C9.  A slice is relative to the view it is taken from: a view made by   *)
(* slice(offset, len) shows the elements offset .. offset + len - 1 of     *)
(* what its parent shows, get_at(i) on it reads the parent's element       *)
(* offset + i, and along a chain of slices the requested offsets add up,   *)
(* so the view shows the store's elements [sum, sum + size), for every     *)
(* slice(offset, len) with offset + len at most the size of a parent that  *)
(* lies inside the store; and a call of view on any live view, the empty   *)
(* ones included, reaches its callback.                                    *)
(***************************************************************************)
C9_SliceIsRelative ==
    /\ [](\A v \in LiveViews :
            LET w == views[v]
                mem == stores[w.store].mem
                parent == DeviceRead(mem, w.sum - w.rel, w.psize)
            IN (w.rel + w.size <= w.psize /\ w.sum - w.rel + w.psize <= Len(mem)) =>
                   /\ ViewSlice(v) = SubSeq(parent, w.rel + 1, w.rel + w.size)
                   /\ \A i \in 0 .. (w.size - 1) : GetAt(v, i) = parent[w.rel + i + 1]
                   /\ ViewSlice(v) = DeviceRead(mem, w.sum, w.size))
    /\ [][\A v \in 1 .. MaxViews : BufView(v) => ~aborted']_vars

\* A slice of a slice, both at a nonzero offset, over a store whose elements
\* at the right and at the parent-relative position differ.
C9_Witness ==
    \E v \in LiveViews :
        /\ views[v].rel > 0
        /\ views[v].sum > views[v].rel
        /\ views[v].size > 0
        /\ stores[views[v].store].mem[views[v].sum + 1]
             # stores[views[v].store].mem[views[v].rel + 1]

(***************************************************************************)
(* C10.  Views share their store: the tracker counts exactly the bytes of  *)
(* the stores that still have a live view (so slice and clone leave it     *)
(* alone), a store is released when its last view is dropped, never        *)
(* earlier, and never more than once.                                      *)
(***************************************************************************)
RECURSIVE SumBytes(_)
SumBytes(S) ==
    IF S = {} THEN 0
    ELSE LET s == CHOOSE x \in S : TRUE
         IN stores[s].bytes + SumBytes(S \ {s})

C10_SharedStoreAccounting ==
    /\ tracker = SumBytes({s \in 1 .. Len(stores) : StrongCount(s) > 0})
    /\ \A s \in 1 .. Len(stores) :
        /\ stores[s].live <=> StrongCount(s) > 0
        /\ released[s] = IF stores[s].live THEN 0 ELSE 1
        /\ stores[s].live => stores[s].bytes = ItemSize * Len(stores[s].mem)
    /\ \A s \in (Len(stores) + 1) .. MaxStores : released[s] = 0

\* One store shared by a view, a slice of it and a clone while another store
\* has already been released.
C10_Witness ==
    /\ \E s \in 1 .. Len(stores) :
        /\ StrongCount(s) >= 2
        /\ \E v \in LiveViews : views[v].store = s /\ views[v].size < Len(stores[s].mem)
    /\ \E s \in 1 .. Len(stores) : released[s] = 1
    /\ tracker > 0

(***************************************************************************)
(* The fold machine: Hal::hash_fold on one digest buffer io of 2n entries  *)
(* whose leaves are io[n .. 2n).  Buffers are indexed from 0 as in the     *)
(* source.                                                                 *)
(***************************************************************************)
Digests == 0 .. DigestMax

\* The numbers of leaves that are explored.
LeafCounts == {2, 4}

\* The hash of a pair of digests under each suite (sha_fold, poseidon_fold,
\* poseidon2_fold); the three differ and none is symmetric.
Hash(suite, a, b) ==
    CASE suite = "sha256" -> (a + 2 * b + 1) % (DigestMax + 1)
      [] suite = "poseidon" -> (2 * a + b + 2) % (DigestMax + 1)
      [] OTHER -> (a + 2 * b + 2) % (DigestMax + 1)

\* The fold kernel on count threads: thread i reads input[2i] and
\* input[2i + 1] and writes output[i], where output and input are the device
\* pointers io + outOff and io + inOff.
FoldKernel(suite, buf, outOff, inOff, cnt) ==
    [x \in DOMAIN buf |->
        IF x >= outOff /\ x < outOff + cnt
        THEN Hash(suite, buf[inOff + 2 * (x - outOff)], buf[inOff + 2 * (x - outOff) + 1])
        ELSE buf[x]]

FoldReads(inOff, cnt) == inOff .. (inOff + 2 * cnt - 1)

FoldWrites(outOff, cnt) == outOff .. (outOff + cnt - 1)

\* The record of a fold call that ran the kernel with the given pointers.
FoldCall(output_size, outOff, inOff) ==
    [op |-> "hash_fold", res |-> "ok", size |-> output_size, prev |-> obuf.io,
     reads |-> FoldReads(inOff, output_size),
     writes |-> FoldWrites(outOff, output_size)]

\* Hal::hash_fold with the kernel's input pointer at io + output_size.
HalHashFold_InputAtOutput(input_size, output_size) ==
    /\ obuf # <<>>
    /\ Len(ohist) < MaxFolds
    /\ IF input_size = 2 * output_size
         THEN /\ obuf' = [obuf EXCEPT !.io =
                             FoldKernel(obuf.suite, @, output_size, output_size, output_size)]
              /\ ocall' = FoldCall(output_size, output_size, output_size)
              /\ ohist' = Append(ohist, output_size)
         ELSE /\ ocall' = [op |-> "hash_fold", res |-> "panic"]
              /\ UNCHANGED <<obuf, ohist>>
    /\ UNCHANGED obuf0

\* Hal::hash_fold with the kernel's output pointer at io + output_size - 1.
HalHashFold_OutputOneLower(input_size, output_size) ==
    /\ obuf # <<>>
    /\ Len(ohist) < MaxFolds
    /\ IF input_size = 2 * output_size
         THEN /\ obuf' = [obuf EXCEPT !.io =
                             FoldKernel(obuf.suite, @, output_size - 1, 2 * output_size, output_size)]
              /\ ocall' = FoldCall(output_size, output_size - 1, 2 * output_size)
              /\ ohist' = Append(ohist, output_size)
         ELSE /\ ocall' = [op |-> "hash_fold", res |-> "panic"]
              /\ UNCHANGED <<obuf, ohist>>
    /\ UNCHANGED obuf0

\* Hal::hash_fold(io, input_size, output_size): the assert_eq!, then the
\* suite's hash_fold, which launches the kernel with
\* input = io.as_device_ptr_with_offset(2 * output_size) and
\* output = io.as_device_ptr_with_offset(output_size) and synchronises.
HalHashFold(input_size, output_size) ==
    /\ obuf # <<>>
    /\ Len(ohist) < MaxFolds
    /\ IF input_size = 2 * output_size
         THEN /\ obuf' = [obuf EXCEPT !.io =
                             FoldKernel(obuf.suite, @, output_size, 2 * output_size, output_size)]
              /\ ocall' = FoldCall(output_size, output_size, 2 * output_size)
              /\ ohist' = Append(ohist, output_size)
         ELSE /\ ocall' = [op |-> "hash_fold", res |-> "panic"]
              /\ UNCHANGED <<obuf, ohist>>
    /\ UNCHANGED obuf0

\* The digest buffer of a Merkle tree over n leaves: io[n .. 2n) holds the
\* leaves, io[0 .. n) is allocated and not yet written.
FoldBuffer(n, leaves, fill) ==
    [x \in 0 .. (2 * n - 1) |-> IF x >= n THEN leaves[x - n + 1] ELSE fill]

InitFold ==
    /\ WitgenIdle /\ BufIdle /\ HalIdle /\ LockIdle
    /\ \E n \in LeafCounts, h \in Suites, fill \in Digests :
         \E leaves \in [1 .. n -> Digests] :
            obuf = [suite |-> h, n |-> n, io |-> FoldBuffer(n, leaves, fill)]
    /\ obuf0 = obuf
    /\ ocall = NoOp
    /\ ohist = <<>>

\* The output sizes whose reads stay inside the buffer.
FoldSizes == {k \in 1 .. obuf.n : 4 * k <= 2 * obuf.n}

NextFold ==
    \/ \E k \in FoldSizes : HalHashFold(2 * k, k) /\ UNCHANGED <<wvars, bvars, hvars, lvars>>
    \/ \E k \in FoldSizes : HalHashFold(2 * k + 1, k) /\ UNCHANGED <<wvars, bvars, hvars, lvars>>

SpecFold == InitFold /\ [][NextFold]_vars

(***************************************************************************)
(* C11.  A hash_fold call with input_size = 2 * output_size that ran its   *)
(* kernel has set io[output_size + i] to the hash of the pair              *)
(* io[2 * output_size + 2i], io[2 * output_size + 2i + 1] for every        *)
(* i < output_size, has read only io[2 * output_size .. 4 * output_size),  *)
(* has left every entry outside [output_size, 2 * output_size) as it was,  *)
(* and what it read and what it wrote do not overlap.                      *)
(***************************************************************************)
C11_HashFoldContract ==
    (ocall.op = "hash_fold" /\ ocall.res = "ok") =>
        LET k == ocall.size
        IN /\ \A i \in 0 .. (k - 1) :
                obuf.io[k + i] =
                    Hash(obuf.suite, ocall.prev[2 * k + 2 * i], ocall.prev[2 * k + 2 * i + 1])
           /\ \A x \in DOMAIN obuf.io : (x < k \/ x >= 2 * k) => obuf.io[x] = ocall.prev[x]
           /\ ocall.reads \subseteq (2 * k) .. (4 * k - 1)
           /\ ocall.writes = k .. (2 * k - 1)
           /\ ocall.reads \cap ocall.writes = {}

\* A fold of two pairs that changed the buffer.
C11_Witness ==
    /\ ocall.op = "hash_fold"
    /\ ocall.res = "ok"
    /\ ocall.size = 2
    /\ obuf.io[2] # ocall.prev[2]
    /\ obuf.io[2] # obuf.io[3]

\* The output sizes n/2, n/4, .., 1 of the folds that build a tree over n
\* leaves.
RECURSIVE Descent(_)
Descent(n) == IF n <= 1 THEN <<>> ELSE <<n \div 2>> \o Descent(n \div 2)

\* The Merkle root of a sequence of 2^k leaves.
RECURSIVE MerkleRoot(_, _)
MerkleRoot(suite, leaves) ==
    IF Len(leaves) = 1 THEN leaves[1]
    ELSE Hash(suite,
              MerkleRoot(suite, SubSeq(leaves, 1, Len(leaves) \div 2)),
              MerkleRoot(suite, SubSeq(leaves, Len(leaves) \div 2 + 1, Len(leaves))))

IsPrefix(a, b) == Len(a) <= Len(b) /\ \A i \in 1 .. Len(a) : a[i] = b[i]

Leaves0 == [i \in 1 .. obuf.n |-> obuf0.io[obuf.n + i - 1]]

(***************************************************************************)
(* C12.  While the calls made are hash_fold(io, 2k, k) for k = n/2, n/4,   *)
(* .. in this order, every level produced so far still holds the pairwise  *)
(* hashes of the level below it, the leaves and io[0] are as they were at  *)
(* the start, and after log2(n) calls io[1] is the Merkle root of the      *)
(* leaves.                                                                 *)
(***************************************************************************)
C12_FoldSequenceBuildsRoot ==
    IsPrefix(ohist, Descent(obuf.n)) =>
        /\ \A j \in 1 .. Len(ohist) :
             \A i \in 0 .. (ohist[j] - 1) :
                obuf.io[ohist[j] + i] =
                    Hash(obuf.suite, obuf.io[2 * ohist[j] + 2 * i],
                         obuf.io[2 * ohist[j] + 2 * i + 1])
        /\ \A x \in obuf.n .. (2 * obuf.n - 1) : obuf.io[x] = obuf0.io[x]
        /\ obuf.io[0] = obuf0.io[0]
        /\ \A x \in 1 .. (2 * obuf.n - 1) :
             (Len(ohist) = 0 \/ x < ohist[Len(ohist)]) => obuf.io[x] = obuf0.io[x]
        /\ Len(ohist) = Len(Descent(obuf.n)) =>
             obuf.io[1] = MerkleRoot(obuf.suite, Leaves0)

\* The tree over four leaves is complete and its root is not what io[1] held
\* at the start.
C12_Witness ==
    /\ obuf # <<>>
    /\ obuf.n = 4
    /\ ohist = <<2, 1>>
    /\ obuf.io[1] # obuf0.io[1]
    /\ obuf.io[2] # obuf.io[3]

(***************************************************************************)
(* C13.  When execute has returned Ok, every ctrl cell of the last         *)
(* ZK_CYCLES cycles is ZERO, whatever the loader stamped there.            *)
(***************************************************************************)
C13_CtrlZkRowsZero ==
    pc = "done" =>
        \A c \in ZkRows : \A j \in 0 .. (CtrlSize - 1) : ctrl[Idx(j, c)] = ZERO

\* Ok after a run whose loader had stamped the ZK rows of ctrl.
C13_Witness ==
    /\ pc = "done"
    /\ loaderFill
    /\ \E c \in ZkRows : LoaderStamp[Idx(0, c)] # ZERO

(***************************************************************************)
(* C14.  When execute has returned Ok, exactly ZK_CYCLES * data_size draws *)
(* were made, every data cell of the last ZK_CYCLES cycles holds the draw  *)
(* that was made for it and for no other cell, whatever a step or a        *)
(* back-injection wrote there before, that value is a valid field element, *)
(* and sanitization has not changed it.                                    *)
(***************************************************************************)
DrawOf(c, j) == (c - (steps - ZK_CYCLES)) * DataSize + j

C14_DataZkRowsFreshDraws ==
    /\ pc \in {"zeroize", "done"} =>
        /\ rngDraws = ZK_CYCLES * DataSize
        /\ \A c \in ZkRows : \A j \in 0 .. (DataSize - 1) :
            /\ data[Idx(j, c)] = RngDraw(seed, DrawOf(c, j))
            /\ data[Idx(j, c)] \in Fp
            /\ DrawOf(c, j) \in 0 .. (ZK_CYCLES * DataSize - 1)
            /\ \A c2 \in ZkRows : \A j2 \in 0 .. (DataSize - 1) :
                 DrawOf(c, j) = DrawOf(c2, j2) => (c = c2 /\ j = j2)
    /\ pc \notin {"zeroize", "done"} => rngDraws = 0

\* Ok with ZK rows that hold different, nonzero draws, after a parallel run
\* whose exec phase had stepped a cycle of the ZK rows and injected the back
\* cell in it, both with a value other than the draw the cell holds now.
C14_Witness ==
    /\ pc = "done"
    /\ mode = "par"
    /\ \E c \in ZkRows :
          /\ c \in stepped["exec"]
          /\ c + 1 \in injected["exec"]
          /\ SeqExecData[Idx(Col("exec"), c)] \in Fp
          /\ SeqExecData[Idx(Col("exec"), c)] # data[Idx(Col("exec"), c)]
    /\ \E c \in ZkRows : \E j \in 0 .. (DataSize - 1) :
        /\ data[Idx(j, c)] # ZERO
        /\ data[Idx(j, c)] # data[Idx(0, steps - ZK_CYCLES)]


(***************************************************************************)
(* WitnessGenerator::test_step_execute(trace, is_fwd)                      *)
(***************************************************************************)
InitTest ==
    /\ mode \in {"par", "seq"}
    /\ \E po2 \in Po2Set : steps = 2 ^ po2
    /\ ctrl = [x \in 0 .. (CtrlSize * steps - 1) |-> ZERO]
    /\ data = [x \in 0 .. (DataSize * steps - 1) |-> INVALID]
    /\ io0 \in [1 .. IoSize -> Elem]
    /\ io = io0
    /\ trace \in 0 .. MaxTrace
    /\ seed = 0
    /\ loadLast \in 0 .. (IF steps < MaxLoad THEN steps ELSE MaxLoad)
    /\ loaderFill \in BOOLEAN
    /\ backAtZero \in BackConventions
    /\ is_fwd \in BOOLEAN
    /\ machine = MachineNew(steps, trace)
    /\ pc = "test_load"
    /\ last_cycle = 0
    /\ cycle = 0
    /\ pending = {}
    /\ failed = FALSE
    /\ errPc = "none"
    /\ injected = [ph \in Phases |-> {}]
    /\ stepped = [ph \in Phases |-> {}]
    /\ sorted = {}
    /\ acc = [c \in 0 .. (steps - 1) |-> NoAcc]
    /\ written = {}
    /\ readUninit = FALSE
    /\ retried = FALSE
    /\ rngDraws = 0
    /\ errors = 0
    /\ BufIdle
    /\ HalIdle
    /\ LockIdle
    /\ OpsIdle

\* Where test_step_execute goes once the loop at position p has run to n;
\* rev_step_exec called with last_cycle = 0 steps nothing.
TestAfter(p, n) ==
    CASE p = "test_inject" ->
            IF n < loadLast THEN "test_inject"
            ELSE IF loadLast > 0 THEN "test_rev" ELSE "test_zeroize"
      [] p = "test_fwd" -> IF n < loadLast THEN "test_fwd" ELSE "test_zeroize"
      [] p = "test_rev" -> IF n > 0 THEN "test_rev" ELSE "test_zeroize"

\* MachineContext::new; Loader::new(..).load(); then the branch on is_fwd.
TestLoad ==
    /\ pc = "test_load"
    /\ ctrl' = LoaderStamp
    /\ last_cycle' = loadLast
    /\ cycle' = 0
    /\ pc' = IF is_fwd THEN TestAfter("test_fwd", 0) ELSE TestAfter("test_inject", 0)
    /\ UNCHANGED <<inputs, data, io, machine, pending, failed, errPc, injected,
                   stepped, sorted, acc, written, readUninit, retried, rngDraws,
                   errors>>

\* Variant: the injection loop runs but writes no back value.
TestInjectExecBacks_NoWrite ==
    /\ pc = "test_inject"
    /\ ~is_fwd
    /\ cycle < last_cycle
    /\ injected' = [injected EXCEPT !["exec"] = @ \cup {cycle}]
    /\ cycle' = IF cycle + 1 < last_cycle THEN cycle + 1 ELSE last_cycle
    /\ pc' = TestAfter("test_inject", cycle + 1)
    /\ UNCHANGED <<inputs, ctrl, data, io, machine, last_cycle, pending, failed,
                   errPc, stepped, sorted, acc, written, readUninit, retried,
                   rngDraws, errors>>

\* if !is_fwd { for cycle in 0..last_cycle { inject_exec_backs(cycle) } }:
\* one iteration; after the last one `cycle` is last_cycle, where
\* rev_step_exec starts.
TestInjectExecBacks ==
    /\ pc = "test_inject"
    /\ ~is_fwd
    /\ cycle < last_cycle
    /\ data' = InjectWrite(data, machine.exec, "exec", cycle)
    /\ written' = written \cup BackCells("exec", cycle)
    /\ injected' = [injected EXCEPT !["exec"] = @ \cup {cycle}]
    /\ cycle' = IF cycle + 1 < last_cycle THEN cycle + 1 ELSE last_cycle
    /\ pc' = TestAfter("test_inject", cycle + 1)
    /\ UNCHANGED <<inputs, ctrl, io, machine, last_cycle, pending, failed, errPc,
                   stepped, sorted, acc, readUninit, retried, rngDraws, errors>>

\* for cycle in 0..last_cycle { machine.step_exec(steps, cycle, args).unwrap() }
TestStepExec(ok) ==
    /\ pc = "test_fwd"
    /\ is_fwd
    /\ cycle < last_cycle
    /\ stepped' = [stepped EXCEPT !["exec"] = @ \cup {cycle}]
    /\ IF ok
       THEN /\ data' = StepWrite(data, machine.exec, "exec", cycle)
            /\ written' = written \cup {Idx(Col("exec"), cycle)}
            /\ readUninit' = (readUninit \/ INVALID \in BackLoads(data, "exec", cycle))
            /\ cycle' = cycle + 1
            /\ pc' = TestAfter("test_fwd", cycle + 1)
            /\ UNCHANGED <<errPc, errors>>
       ELSE /\ pc' = "panic"
            /\ errPc' = pc
            /\ errors' = errors + 1
            /\ UNCHANGED <<data, written, readUninit, cycle>>
    /\ UNCHANGED <<inputs, ctrl, io, machine, last_cycle, pending, failed,
                   injected, sorted, acc, retried, rngDraws>>

\* machine.rev_step_exec(steps, last_cycle, args).unwrap(): the cycles below
\* last_cycle, highest first; `cycle` counts the cycles still to step.
TestRevStepExec(ok) ==
    /\ pc = "test_rev"
    /\ ~is_fwd
    /\ cycle > 0
    /\ stepped' = [stepped EXCEPT !["exec"] = @ \cup {cycle - 1}]
    /\ IF ok
       THEN /\ data' = StepWrite(data, machine.exec, "exec", cycle - 1)
            /\ written' = written \cup {Idx(Col("exec"), cycle - 1)}
            /\ readUninit' = (readUninit \/ INVALID \in BackLoads(data, "exec", cycle - 1))
            /\ cycle' = cycle - 1
            /\ pc' = TestAfter("test_rev", cycle - 1)
            /\ UNCHANGED <<errPc, errors>>
       ELSE /\ pc' = "panic"
            /\ errPc' = pc
            /\ errors' = errors + 1
            /\ UNCHANGED <<data, written, readUninit, cycle>>
    /\ UNCHANGED <<inputs, ctrl, io, machine, last_cycle, pending, failed,
                   injected, sorted, acc, retried, rngDraws>>

\* valid_or_zero over data chained with io; data.as_slice().to_vec() is
\* returned.
TestZeroize ==
    /\ pc = "test_zeroize"
    /\ data' = [x \in DOMAIN data |-> valid_or_zero(data[x])]
    /\ io' = [x \in DOMAIN io |-> valid_or_zero(io[x])]
    /\ pc' = "test_done"
    /\ UNCHANGED <<inputs, ctrl, machine, last_cycle, cycle, pending, failed, errPc,
                   injected, stepped, sorted, acc, written, readUninit, retried,
                   rngDraws, errors>>

NextTest ==
    \/ TestLoad /\ UNCHANGED <<bvars, hvars, lvars, ovars>>
    \/ TestInjectExecBacks /\ UNCHANGED <<bvars, hvars, lvars, ovars>>
    \/ \E ok \in BOOLEAN : TestStepExec(ok) /\ UNCHANGED <<bvars, hvars, lvars, ovars>>
    \/ \E ok \in BOOLEAN : TestRevStepExec(ok) /\ UNCHANGED <<bvars, hvars, lvars, ovars>>
    \/ TestZeroize /\ UNCHANGED <<bvars, hvars, lvars, ovars>>

SpecTest == InitTest /\ [][NextTest]_vars

\* What test_step_execute(trace, true) returns: the forward loop on the
\* freshly constructed data, then valid_or_zero.
TestForward ==
    [x \in DOMAIN data |->
        valid_or_zero(SeqLoop(InitData, Machine0.exec, "exec", loadLast)[x])]

(***************************************************************************)
(* C15: for every trace, test_step_execute returns the same data with      *)
(* is_fwd = false (inject_exec_backs for every cycle below last_cycle,     *)
(* rev_step_exec over the cycles in reverse, sanitization) as with         *)
(* is_fwd = true (step_exec in increasing order without injection,         *)
(* sanitization).                                                          *)
(***************************************************************************)
C15_ReverseEqualsForward ==
    pc = "test_done" => data = TestForward

\* A reverse run over at least two cycles that returned non-zero rows.
C15_Witness ==
    /\ pc = "test_done"
    /\ ~is_fwd
    /\ last_cycle >= 2
    /\ stepped["exec"] = 0 .. (last_cycle - 1)
    /\ \E c \in 1 .. (last_cycle - 1) : data[Idx(0, c)] # ZERO

\* The number of elements of store s.
StoreElems(s) == stores[s].bytes \div ItemSize

\* The last step was a call of slice that ended as res.
SliceEnded(res) == lastSlice' # lastSlice /\ lastSlice'.res = res

(***************************************************************************)
(* C16: slice(offset, len) panics, returning no view, exactly when         *)
(* offset + len exceeds size() of the buffer sliced, and then leaves the   *)
(* buffer and its store as they were; so every view reachable by slice     *)
(* calls has offset + size at most the element count of its store.         *)
(***************************************************************************)
C16_SlicePanicsExactlyWhenOver ==
    /\ [](/\ lastSlice.res = "panic" <=> lastSlice.over
          /\ \A v \in LiveViews :
                views[v].offset + views[v].size <= StoreElems(views[v].store))
    /\ [][/\ SliceEnded("panic") => UNCHANGED <<stores, views, tracker>>
          /\ SliceEnded("ok") => Cardinality(LiveViews') = Cardinality(LiveViews) + 1]_vars

\* The same over the calls of slice whose two sums fit in usize.
SliceChecksWithoutOverflow ==
    /\ \A v \in LiveViews : views[v].sum = views[v].offset
    /\ \A v \in LiveViews : views[v].offset + views[v].size <= StoreElems(views[v].store)
    /\ lastSlice.res = "panic" <=> lastSlice.over


(***************************************************************************)
(* Launch parameters.                                                      *)
(***************************************************************************)
\* Variant: the quotient is rounded down.
div_ceil_Floor(a, b) == a \div b

\* u32::MAX at the width of the model.
U32_MAX == 2 ^ UBits - 1

\* Variant: the sum wraps around, as a + b does in a release build.
checked_add_Wrapping(a, b) == {(a + b) % (U32_MAX + 1)}

\* u32::checked_add: None (the empty set) when the sum does not fit.
checked_add(a, b) == IF a + b > U32_MAX THEN {} ELSE {a + b}

\* Option::unwrap of Some(x).
unwrap(o) == CHOOSE x \in o : TRUE

\* div_ceil(a, b) panics: the unwrap of None, or the division by zero.
DivCeilPanics(a, b) == checked_add(a, b) = {} \/ b = 0

\* fn div_ceil(a: u32, b: u32) -> u32, when it returns.
div_ceil(a, b) == (unwrap(checked_add(a, b)) - 1) \div b

\* compute_simple_params(count): (grid, block).
compute_simple_params(cnt) ==
    LET block == max_threads \div 4
    IN  [grid |-> div_ceil(cnt, block), block |-> block]

\* compute_simple_params(count) panics: count.try_into().unwrap() for a
\* count that does not fit in u32, or div_ceil.
SimpleParamsPanics(cnt) ==
    cnt > U32_MAX \/ DivCeilPanics(cnt, max_threads \div 4)

\* launch!(kernel<<<grid, block, 0, stream>>>(..)).unwrap() with the
\* parameters of compute_simple_params(cnt) gets past its unwraps: the
\* parameters are computed, and the grid is not empty (the driver refuses a
\* launch of zero blocks with an invalid-value error).
LaunchAccepted(cnt) ==
    /\ ~SimpleParamsPanics(cnt)
    /\ compute_simple_params(cnt).grid > 0

(***************************************************************************)
(* The size checks of the element-wise, FRI and hash operations.           *)
(***************************************************************************)
\* ExtElem::EXT_SIZE of the BabyBear extension field.
EXT_SIZE == 4

\* std::mem::size_of::<T>() for T = BabyBearExtElem: EXT_SIZE elements.
ExtItemSize == EXT_SIZE * ItemSize

\* The folding factor of FRI.
FRI_FOLD == 16

\* The buffer sizes and size arguments the calls are made with.
PreSizes == {0, EXT_SIZE - 1, EXT_SIZE, 2 * EXT_SIZE, EXT_SIZE * FRI_FOLD}

\* eltwise_add_elem: the two assert_eq! on the sizes.
EltwiseAddPre(output, input1, input2) == output = input1 /\ output = input2

\* Variant: the sizes of output and input are not compared.
EltwiseCopyPre_Unchecked(output, input) == TRUE

\* eltwise_copy_elem: count = output.size(); assert_eq!(count, input.size()).
EltwiseCopyPre(output, input) == output = input

\* eltwise_sum_extelem: count and to_add are integer quotients, and the
\* division by a zero count panics like a failed assertion.
EltwiseSumPre(output, input) ==
    LET cnt == output \div EXT_SIZE
    IN  /\ cnt # 0
        /\ output = cnt * EXT_SIZE
        /\ input = cnt * (input \div cnt)

\* fri_fold: the two assert_eq! before the mix buffer is allocated.
FriFoldPre(output, input) ==
    LET cnt == output \div EXT_SIZE
    IN  /\ output = cnt * EXT_SIZE
        /\ input = output * FRI_FOLD

\* Hal::hash_fold: assert_eq!(input_size, 2 * output_size).
HashFoldPre(input_size, output_size) == input_size = 2 * output_size

\* CudaHash::hash_rows: col_size is an integer quotient, and the division by
\* a zero output size panics like a failed assertion.
HashRowsPre(output, matrix) ==
    /\ output # 0
    /\ matrix = (matrix \div output) * output

\* The sizes a call was made with.
Sized(op, output, input1, input2) ==
    ocall' = [op |-> op, output |-> output, input1 |-> input1, input2 |-> input2]

SizedEltwiseAddElem(b, output, input1, input2) ==
    /\ Sized("eltwise_add_elem", output, input1, input2)
    /\ EltwiseAddElem(b, EltwiseAddPre(output, input1, input2) /\ LaunchAccepted(output))

SizedEltwiseCopyElem(b, output, input) ==
    /\ Sized("eltwise_copy_elem", output, input, 0)
    /\ EltwiseCopyElem(b, EltwiseCopyPre(output, input) /\ LaunchAccepted(output))

SizedEltwiseSumExtelem(b, output, input) ==
    /\ Sized("eltwise_sum_extelem", output, input, 0)
    /\ EltwiseSumExtelem(b, EltwiseSumPre(output, input) /\ LaunchAccepted(output))

SizedFriFold(b, output, input) ==
    /\ Sized("fri_fold", output, input, 0)
    /\ FriFold(b, FriFoldPre(output, input) /\ LaunchAccepted(output \div EXT_SIZE))

SizedHashFold(suite, b, input_size, output_size) ==
    /\ Sized("hash_fold", output_size, input_size, 0)
    /\ HashFold(suite, b, HashFoldPre(input_size, output_size) /\ LaunchAccepted(output_size))

SizedHashRows(suite, b, output, matrix) ==
    /\ Sized("hash_rows", output, matrix, 0)
    /\ HashRows(suite, b, HashRowsPre(output, matrix) /\ LaunchAccepted(output))

\* gather_sample checks no size.
SizedGatherSample(b, size) ==
    /\ Sized("gather_sample", size, 0, 0)
    /\ GatherSample(b, LaunchAccepted(size))

InitPre == WitgenIdle /\ BufIdle /\ HalIdle /\ LockIdle /\ OpsIdle

NextPre ==
    \/ \E b \in 1 .. HalBufs, o, i, j \in PreSizes :
          SizedEltwiseAddElem(b, o, i, j) /\ UNCHANGED <<wvars, bvars, lvars, obuf, obuf0, ohist>>
    \/ \E b \in 1 .. HalBufs, o, i \in PreSizes :
          SizedEltwiseCopyElem(b, o, i) /\ UNCHANGED <<wvars, bvars, lvars, obuf, obuf0, ohist>>
    \/ \E b \in 1 .. HalBufs, o, i \in PreSizes :
          SizedEltwiseSumExtelem(b, o, i) /\ UNCHANGED <<wvars, bvars, lvars, obuf, obuf0, ohist>>
    \/ \E b \in 1 .. HalBufs, o, i \in PreSizes :
          SizedFriFold(b, o, i) /\ UNCHANGED <<wvars, bvars, lvars, obuf, obuf0, ohist>>
    \/ \E h \in Suites, b \in 1 .. HalBufs, i, o \in PreSizes :
          SizedHashFold(h, b, i, o) /\ UNCHANGED <<wvars, bvars, lvars, obuf, obuf0, ohist>>
    \/ \E h \in Suites, b \in 1 .. HalBufs, o, i \in PreSizes :
          SizedHashRows(h, b, o, i) /\ UNCHANGED <<wvars, bvars, lvars, obuf, obuf0, ohist>>
    \/ \E b \in 1 .. HalBufs, n \in PreSizes :
          SizedGatherSample(b, n) /\ UNCHANGED <<wvars, bvars, lvars, obuf, obuf0, ohist>>
    \/ KernelComplete /\ UNCHANGED <<wvars, bvars, lvars, ovars>>

SpecPre == InitPre /\ [][NextPre]_vars

\* a is a multiple of b.
IsMultiple(a, b) == \E k \in 0 .. a : a = k * b

\* The size precondition of call c, as the operations are specified.
SizesAgree(c) ==
    CASE c.op = "eltwise_add_elem" -> c.output = c.input1 /\ c.output = c.input2
      [] c.op = "eltwise_copy_elem" -> c.output = c.input1
      [] c.op = "eltwise_sum_extelem" ->
            IsMultiple(c.output, 4) /\ IsMultiple(c.input1, c.output \div 4)
      [] c.op = "fri_fold" -> IsMultiple(c.output, 4) /\ c.input1 = c.output * 16
      [] c.op = "hash_fold" -> c.input1 = 2 * c.output
      [] c.op = "hash_rows" -> IsMultiple(c.input1, c.output)
      [] OTHER -> TRUE

(***************************************************************************)
(* C17: eltwise_add_elem, eltwise_copy_elem, eltwise_sum_extelem,          *)
(* fri_fold, hash_fold and hash_rows called with sizes that violate their  *)
(* precondition panic: the call launches no kernel and no device buffer    *)
(* changes.                                                                *)
(***************************************************************************)
C17_SizeChecksFailFast ==
    [][(hcalls' # hcalls /\ ~SizesAgree(ocall')) =>
          /\ lastCall'.op = "panic"
          /\ lastCall'.id = hcalls'
          /\ UNCHANGED <<queue, dev>>]_vars

\* A call with disagreeing sizes panicked while a kernel launched earlier was
\* still on the stream, and another with agreeing sizes had run.
C17_Witness ==
    /\ ~SizesAgree(ocall)
    /\ lastCall.op = "panic"
    /\ queue # <<>>
    /\ \E b \in 1 .. HalBufs : dev[b] \notin {"init", "gather_sample"}


(***************************************************************************)
(* CudaHal::batch_expand_into_evaluate_ntt                                 *)
(***************************************************************************)
\* Elem::MAX_ROU_PO2 of BabyBear.
MAX_ROU_PO2 == 27

RECURSIVE Log2From(_, _)
Log2From(value, r) == IF 2 ^ r < value THEN Log2From(value, r + 1) ELSE r

\* log2_ceil(value): the least r with value <= 1 << r.
log2_ceil(value) == Log2From(value, 0)

\* The call as it returns: which of the two extern kernels ran, the expand
\* bits batch_expand was given, and whether the call panicked.
NttCall(out, in, poly_count, expand_bits, expanded, bits, ntt, res) ==
    [op |-> "batch_expand_into_evaluate_ntt", out |-> out, in |-> in,
     poly_count |-> poly_count, expand_bits |-> expand_bits,
     expanded |-> expanded, bits |-> bits, ntt |-> ntt, res |-> res]

\* The first block: the quotients, the local expand_bits that shadows the
\* argument, and the three assertions before batch_expand.
ExpandChecks(out, in, poly_count) ==
    /\ poly_count # 0
    /\ in \div poly_count # 0
    /\ LET out_size == out \div poly_count
           in_size == in \div poly_count
           expand_bits == log2_ceil(out_size \div in_size)
       IN  /\ out = out_size * poly_count
           /\ in = in_size * poly_count
           /\ out_size = in_size * (2 ^ expand_bits)

\* The expand bits handed to batch_expand.
ExpandBitsUsed(out, in, poly_count) ==
    log2_ceil((out \div poly_count) \div (in \div poly_count))

\* The second block: the assertions before batch_NTT; here expand_bits is
\* the argument.
NttChecks(out, poly_count, expand_bits) ==
    LET row_size == out \div poly_count
        n_bits == log2_ceil(row_size)
    IN  /\ row_size * poly_count = out
        /\ row_size = 2 ^ n_bits
        /\ n_bits >= expand_bits
        /\ n_bits < MAX_ROU_PO2

\* batch_expand_into_evaluate_ntt(output, input, poly_count, expand_bits);
\* ok1 and ok2 tell whether batch_expand and batch_NTT return code 0.  One
\* call is followed from the idle state.
BatchExpandIntoEvaluateNtt(out, in, poly_count, expand_bits, ok1, ok2) ==
    /\ ocall = NoOp
    /\ ocall' =
          IF ~ExpandChecks(out, in, poly_count)
          THEN NttCall(out, in, poly_count, expand_bits, FALSE, 0, FALSE, "panic")
          ELSE IF ~ok1 \/ ~NttChecks(out, poly_count, expand_bits)
          THEN NttCall(out, in, poly_count, expand_bits, TRUE,
                       ExpandBitsUsed(out, in, poly_count), FALSE, "panic")
          ELSE NttCall(out, in, poly_count, expand_bits, TRUE,
                       ExpandBitsUsed(out, in, poly_count), TRUE,
                       IF ok2 THEN "ok" ELSE "panic")
    /\ UNCHANGED <<obuf, obuf0, ohist>>

InitNtt == WitgenIdle /\ BufIdle /\ HalIdle /\ LockIdle /\ OpsIdle

NextNtt ==
    \E out, in \in 0 .. MaxNtt, poly_count \in 0 .. 2, expand_bits \in 0 .. MaxBits,
       ok1, ok2 \in BOOLEAN :
        BatchExpandIntoEvaluateNtt(out, in, poly_count, expand_bits, ok1, ok2)
            /\ UNCHANGED <<wvars, bvars, hvars, lvars>>

SpecNtt == InitNtt /\ [][NextNtt]_vars

\* out.size() = poly_count * in_size * 2^expand_bits with in_size =
\* in.size() / poly_count, for the expand_bits the caller passed.
ExpandBitsAgree(c) ==
    /\ c.poly_count # 0
    /\ c.in = (c.in \div c.poly_count) * c.poly_count
    /\ c.out = c.poly_count * (c.in \div c.poly_count) * (2 ^ c.expand_bits)

(***************************************************************************)
(* C18: a call of batch_expand_into_evaluate_ntt whose expand_bits         *)
(* argument is not log2(out_size / in_size), that is whose out.size() is   *)
(* not poly_count * in_size * 2^expand_bits, fails fast: it panics and     *)
(* runs neither batch_expand nor the NTT.                                  *)
(***************************************************************************)
C18_ExpandBitsChecked ==
    (ocall.op = "batch_expand_into_evaluate_ntt" /\ ~ExpandBitsAgree(ocall)) =>
        /\ ocall.res = "panic"
        /\ ~ocall.expanded
        /\ ~ocall.ntt


(***************************************************************************)
(* prefix_products: the HAL method and the free function.                  *)
(***************************************************************************)
\* Extension-field elements and their product.
ExtVals == 0 .. (ExtOrder - 1)

ExtMul(a, b) == (a * b) % ExtOrder

ExtSlices == UNION {[1 .. n -> ExtVals] : n \in 1 .. MaxProd}

\* Variant: each element is multiplied by its left neighbour as it was on
\* entry.
PrefixLoop_Pairwise(s, i) ==
    [k \in 1 .. Len(s) |-> IF k <= i THEN s[k] ELSE ExtMul(s[k], s[k - 1])]

RECURSIVE PrefixLoop(_, _)
\* The closure of the HAL method from index i on:
\* for i in 1..io.len() { io[i] *= io[i - 1] }.
PrefixLoop(s, i) ==
    IF i >= Len(s) THEN s
    ELSE PrefixLoop([s EXCEPT ![i + 1] = ExtMul(@, s[i])], i + 1)

RECURSIVE UnifiedLoop(_, _, _)
\* The loop of the free function: for i in 1..len { io[i].0 *= io[i - 1].0 }.
UnifiedLoop(s, len, i) ==
    IF i >= len THEN s
    ELSE UnifiedLoop([s EXCEPT ![i + 1] = ExtMul(@, s[i])], len, i + 1)

\* pub fn prefix_products(io: &mut UnifiedBuffer<DeviceExtElem>)
prefix_products(s) == UnifiedLoop(s, Len(s), 1)

\* view_mut writes the whole host copy back: the elements before offset as
\* read, then the slice the callback worked on.
WriteBack(mem, offset, slice) == SubSeq(mem, 1, offset) \o slice

PrefixCall(hal, free) == [op |-> "prefix_products", hal |-> hal, free |-> free]

\* The caller fills a device buffer, through copy_from_extelem, and a unified
\* buffer with the same elements; the device buffer is one whose allocation
\* went through.
PrefixCopyFrom(slice) ==
    /\ stores = <<>>
    /\ CopyFromOf(ExtItemSize, slice, TRUE)
    /\ obuf' = slice
    /\ obuf0' = slice
    /\ ocall' = PrefixCall(FALSE, FALSE)
    /\ UNCHANGED ohist

\* CudaHal::prefix_products(io): io.view_mut(closure).
HalPrefixProducts(v) ==
    /\ Live(v)
    /\ ocall = PrefixCall(FALSE, ocall.free)
    /\ stores' = [stores EXCEPT ![views[v].store].mem =
                     WriteBack(@, views[v].offset, PrefixLoop(ViewMutSlice(v), 1))]
    /\ ocall' = PrefixCall(TRUE, ocall.free)
    /\ UNCHANGED <<views, tracker, released, lastSlice, aborted, obuf, obuf0, ohist>>

\* The free function applied to the unified buffer.
UnifiedPrefixProducts ==
    /\ ocall.op = "prefix_products"
    /\ ~ocall.free
    /\ obuf' = prefix_products(obuf)
    /\ ocall' = PrefixCall(ocall.hal, TRUE)
    /\ UNCHANGED <<bvars, obuf0, ohist>>

InitPrefix == WitgenIdle /\ BufIdle /\ HalIdle /\ LockIdle /\ OpsIdle

NextPrefix ==
    \/ \E slice \in ExtSlices : PrefixCopyFrom(slice) /\ UNCHANGED <<wvars, hvars, lvars>>
    \/ \E v \in 1 .. MaxViews : HalPrefixProducts(v) /\ UNCHANGED <<wvars, hvars, lvars>>
    \/ UnifiedPrefixProducts /\ UNCHANGED <<wvars, hvars, lvars>>

SpecPrefix == InitPrefix /\ [][NextPrefix]_vars

RECURSIVE Product(_, _)
\* s[1] * s[2] * ... * s[i]
Product(s, i) == IF i = 1 THEN s[1] ELSE ExtMul(Product(s, i - 1), s[i])

RunningProducts(s) == [i \in 1 .. Len(s) |-> Product(s, i)]

(***************************************************************************)
(* C19: prefix_products on a whole buffer of n extension elements leaves   *)
(* the length n and replaces element i by the product of the original      *)
(* elements 0 .. i (element 0 stays); the HAL method, which reads back,    *)
(* multiplies on the host and writes through, and the free function on a   *)
(* unified buffer give the same result on the same input.                  *)
(***************************************************************************)
C19_PrefixProducts ==
    ocall.op = "prefix_products" =>
        /\ ocall.hal =>
              /\ views[1].size = Len(obuf0)
              /\ Len(stores[1].mem) = Len(obuf0)
              /\ ViewSlice(1) = RunningProducts(obuf0)
        /\ ocall.free => obuf = RunningProducts(obuf0)
        /\ (ocall.hal /\ ocall.free) => ViewSlice(1) = obuf

\* Both ran on four non-zero elements and the products past the first differ
\* from the elements they replaced.
C19_Witness ==
    /\ ocall.op = "prefix_products"
    /\ ocall.hal
    /\ ocall.free
    /\ Len(obuf0) = MaxProd
    /\ \A i \in 1 .. Len(obuf0) : obuf0[i] > 1
    /\ \A i \in 2 .. Len(obuf0) : ViewSlice(1)[i] # obuf0[i]


(***************************************************************************)
(* CudaHal::gather_sample                                                  *)
(***************************************************************************)
\* The buffers a caller hands to gather_sample: src holds distinct values,
\* dst is filled with one value that src does not hold.
GatherBuffers(ns, nd, base, fill) ==
    [src |-> [k \in 1 .. ns |-> base + k], dst |-> [k \in 1 .. nd |-> fill]]

\* Every element the kernel is asked to read lies in src, and every element
\* it is asked to write lies in dst.
GatherInRange(b, idx, size, stride) ==
    /\ size <= Len(b.dst)
    /\ size > 0 => idx + (size - 1) * stride < Len(b.src)

\* The caller allocates src and dst.
GatherAlloc(ns, nd, base, fill) ==
    /\ obuf = <<>>
    /\ obuf' = GatherBuffers(ns, nd, base, fill)
    /\ obuf0' = GatherBuffers(ns, nd, base, fill)
    /\ UNCHANGED <<ocall, ohist>>

\* gather_sample(dst, src, idx, size, stride): the kernel is launched with
\* the parameters of compute_simple_params(size) and the call returns; a
\* launch of an empty grid is refused and the unwrap panics.  Nothing
\* compares idx, size and stride with the sizes of dst and src.
HalGatherSample(idx, size, stride) ==
    /\ obuf # <<>>
    /\ ocall = NoOp
    /\ LET p == compute_simple_params(size)
       IN  ocall' = [op |-> "gather_sample", idx |-> idx, size |-> size,
                     stride |-> stride, grid |-> p.grid, block |-> p.block,
                     res |-> IF p.grid = 0 THEN "panic" ELSE "ok",
                     ran |-> {},
                     writers |-> [i \in 0 .. (Len(obuf.dst) - 1) |-> {}]]
    /\ UNCHANGED <<obuf, obuf0, ohist>>

\* The threads of the launched grid: blockIdx.x * blockDim.x + threadIdx.x.
GridThreads(c) == IF c.res = "ok" THEN 0 .. (c.grid * c.block - 1) ELSE {}

\* Thread t of the gather_sample kernel:
\* if (t < size) dst[t] = src[idx + t * stride].
GatherThread(t) ==
    /\ ocall.op = "gather_sample"
    /\ t \in GridThreads(ocall) \ ocall.ran
    /\ IF t < ocall.size
       THEN /\ obuf' = [obuf EXCEPT !.dst[t + 1] = obuf.src[ocall.idx + t * ocall.stride + 1]]
            /\ ocall' = [ocall EXCEPT !.ran = @ \cup {t}, !.writers[t] = @ \cup {t}]
       ELSE /\ obuf' = obuf
            /\ ocall' = [ocall EXCEPT !.ran = @ \cup {t}]
    /\ UNCHANGED <<obuf0, ohist>>

InitGather == WitgenIdle /\ BufIdle /\ HalIdle /\ LockIdle /\ OpsIdle

NextGather ==
    \/ \E ns \in 1 .. MaxSrc, nd \in 1 .. MaxDst, base \in 1 .. 2, fill \in 0 .. 1 :
          GatherAlloc(ns, nd, base, fill) /\ UNCHANGED <<wvars, bvars, hvars, lvars>>
    \/ \E idx \in 0 .. 2, size \in 0 .. MaxDst, stride \in 0 .. 2 :
          /\ obuf # <<>>
          /\ GatherInRange(obuf, idx, size, stride)
          /\ HalGatherSample(idx, size, stride)
          /\ UNCHANGED <<wvars, bvars, hvars, lvars>>
    \/ \E t \in 0 .. (2 * MaxDst) : GatherThread(t) /\ UNCHANGED <<wvars, bvars, hvars, lvars>>

SpecGather == InitGather /\ [][NextGather]_vars

\* The kernel of the call has completed: every thread of the grid ran.
GatherDone == ocall.op = "gather_sample" /\ ocall.ran = GridThreads(ocall)

(***************************************************************************)
(* C20: gather_sample(dst, src, idx, size, stride) sets dst[i] to          *)
(* src[idx + i * stride] for every i below size, leaves dst[i] for         *)
(* i >= size and all of src unchanged, and each of the size indices is     *)
(* written by exactly one thread of the launched grid, which has           *)
(* grid * block >= size threads.                                           *)
(***************************************************************************)
C20_GatherSample ==
    ocall.op = "gather_sample" =>
        /\ ocall.grid * ocall.block >= ocall.size
        /\ obuf.src = obuf0.src
        /\ Len(obuf.dst) = Len(obuf0.dst)
        /\ \A i \in 0 .. (Len(obuf.dst) - 1) :
              /\ i >= ocall.size => obuf.dst[i + 1] = obuf0.dst[i + 1]
              /\ Cardinality(ocall.writers[i]) <= 1
        /\ GatherDone =>
              \A i \in 0 .. (ocall.size - 1) :
                  /\ obuf.dst[i + 1] = obuf0.src[ocall.idx + i * ocall.stride + 1]
                  /\ Cardinality(ocall.writers[i]) = 1

\* A completed gather of three strided elements into a longer dst, by a grid
\* with a thread to spare.
C20_Witness ==
    /\ GatherDone
    /\ ocall.size = 3
    /\ ocall.stride = 2
    /\ ocall.grid * ocall.block > ocall.size
    /\ Len(obuf.dst) > ocall.size
    /\ obuf.dst # obuf0.dst


(***************************************************************************)
(* The NTT round trip on one row: batch_expand_into_evaluate_ntt with      *)
(* expand_bits = 0, batch_interpolate_ntt, batch_bit_reverse.              *)
(***************************************************************************)
\* The modulus of the field the rows are over: a prime with 2-adicity 4
\* standing for the BabyBear modulus.
NttP == 17

RECURSIVE PowP(_, _)
PowP(a, e) == IF e = 0 THEN 1 ELSE (a * PowP(a, e - 1)) % NttP

InvP(a) == PowP(a, NttP - 2)

\* The root of unity of order 2^bits; 3 generates the units of the field.
Rou(bits) == PowP(3, (NttP - 1) \div (2 ^ bits))

RECURSIVE RevBits(_, _)
\* The index i of a row of 2^bits elements with its bits reversed.
RevBits(i, bits) ==
    IF bits = 0 THEN 0 ELSE (i % 2) * (2 ^ (bits - 1)) + RevBits(i \div 2, bits - 1)

\* The kernel of batch_bit_reverse on one row.
BitReverseRow(x, bits) == [i \in 1 .. Len(x) |-> x[RevBits(i - 1, bits) + 1]]

RECURSIVE DftSum(_, _, _, _)
\* The sum over k < j of x[k] * w^(i * k).
DftSum(x, w, i, j) ==
    IF j = 0 THEN 0
    ELSE (DftSum(x, w, i, j - 1) + x[j] * PowP(w, i * (j - 1))) % NttP

Dft(x, w) == [i \in 1 .. Len(x) |-> DftSum(x, w, i - 1, Len(x))]

\* batch_expand with expand_bits = 0 followed by batch_NTT on one row:
\* natural-order input, bit-reversed output.
NttForward(x, bits) == BitReverseRow(Dft(x, Rou(bits)), bits)

\* batch_iNTT on one row: bit-reversed input, natural-order output scaled by
\* 1/n.
NttInverse(y, bits) ==
    LET z == Dft(BitReverseRow(y, bits), InvP(Rou(bits)))
    IN  [i \in 1 .. Len(y) |-> (z[i] * InvP(Len(y) % NttP)) % NttP]

\* batch_interpolate_ntt: the assertions on io.size() and count.
InterpolateChecks(size, cnt) ==
    /\ cnt # 0
    /\ LET row_size == size \div cnt
           n_bits == log2_ceil(row_size)
       IN  /\ row_size * cnt = size
           /\ row_size = 2 ^ n_bits
           /\ n_bits < MAX_ROU_PO2

\* batch_bit_reverse: the assertions on io.size() and count.
BitReverseChecks(size, cnt) ==
    /\ cnt # 0
    /\ LET row_size == size \div cnt
           bits == log2_ceil(row_size)
       IN  /\ row_size * cnt = size
           /\ row_size = 2 ^ bits

RoundStage(n) == [op |-> "round_trip", stage |-> n]

\* The caller fills the input row.
RoundInput(row) ==
    /\ ocall = NoOp
    /\ obuf' = row
    /\ obuf0' = row
    /\ ocall' = RoundStage(0)
    /\ UNCHANGED ohist

\* batch_expand_into_evaluate_ntt(output, input, 1, 0); obuf is the output
\* buffer from here on.
RoundExpandEvaluate ==
    /\ ocall = RoundStage(0)
    /\ ExpandChecks(Len(obuf), Len(obuf), 1)
    /\ NttChecks(Len(obuf), 1, 0)
    /\ obuf' = NttForward(obuf, log2_ceil(Len(obuf)))
    /\ ocall' = RoundStage(1)
    /\ UNCHANGED <<obuf0, ohist>>

\* batch_interpolate_ntt(io, 1)
RoundInterpolate ==
    /\ ocall = RoundStage(1)
    /\ InterpolateChecks(Len(obuf), 1)
    /\ obuf' = NttInverse(obuf, log2_ceil(Len(obuf)))
    /\ ocall' = RoundStage(2)
    /\ UNCHANGED <<obuf0, ohist>>

\* batch_bit_reverse(io, 1)
RoundBitReverse ==
    /\ ocall = RoundStage(2)
    /\ BitReverseChecks(Len(obuf), 1)
    /\ obuf' = BitReverseRow(obuf, log2_ceil(Len(obuf)))
    /\ ocall' = RoundStage(3)
    /\ UNCHANGED <<obuf0, ohist>>

\* The multiplicative shift of zk_shift: a generator of the units of the
\* field, which is an n-th root of unity for no row length n.
ShiftGen == 3

\* The kernel batch_zk_shift on poly_count rows of 2^bits coefficients each:
\* coefficient k of every row is multiplied by ShiftGen^k.
batch_zk_shift(row, bits, poly_count) ==
    [i \in 1 .. Len(row) |-> (row[i] * PowP(ShiftGen, (i - 1) % (2 ^ bits))) % NttP]

\* zk_shift: bits = log2_ceil(io.size() / poly_count), where the division by
\* a zero poly_count panics, and assert_eq!(io.size(), poly_count * (1 << bits)).
ZkShiftChecks(size, poly_count) ==
    /\ poly_count # 0
    /\ size = poly_count * (2 ^ log2_ceil(size \div poly_count))

ZkShiftCall(size, poly_count, bits, shifted, res) ==
    [op |-> "zk_shift", size |-> size, poly_count |-> poly_count, bits |-> bits,
     shifted |-> shifted, res |-> res]

\* zk_shift(io, poly_count) on a buffer io the caller filled with row; ok tells
\* whether batch_zk_shift returns code 0, and when it does not the call
\* panics.  One call is followed from the idle state.
HalZkShift(row, poly_count, ok) ==
    /\ ocall = NoOp
    /\ obuf0' = row
    /\ IF ~ZkShiftChecks(Len(row), poly_count)
       THEN /\ obuf' = row
            /\ ocall' = ZkShiftCall(Len(row), poly_count, 0, FALSE, "panic")
       ELSE LET bits == log2_ceil(Len(row) \div poly_count)
            IN  /\ obuf' = IF ok THEN batch_zk_shift(row, bits, poly_count) ELSE row
                /\ ocall' = ZkShiftCall(Len(row), poly_count, bits, ok,
                                        IF ok THEN "ok" ELSE "panic")
    /\ UNCHANGED ohist

InitRound == WitgenIdle /\ BufIdle /\ HalIdle /\ LockIdle /\ OpsIdle

NextRound ==
    \/ \E bits \in 0 .. MaxRowBits : \E row \in [1 .. (2 ^ bits) -> 0 .. MaxCoef] :
          RoundInput(row) /\ UNCHANGED <<wvars, bvars, hvars, lvars>>
    \/ RoundExpandEvaluate /\ UNCHANGED <<wvars, bvars, hvars, lvars>>
    \/ RoundInterpolate /\ UNCHANGED <<wvars, bvars, hvars, lvars>>
    \/ RoundBitReverse /\ UNCHANGED <<wvars, bvars, hvars, lvars>>
    \/ \E n \in 0 .. MaxNtt, c \in 1 .. MaxCoef, poly_count \in 0 .. 3, ok \in BOOLEAN :
          HalZkShift([k \in 1 .. n |-> c], poly_count, ok)
              /\ UNCHANGED <<wvars, bvars, hvars, lvars>>

SpecRound == InitRound /\ [][NextRound]_vars

(***************************************************************************)
(* C21: on one row of power-of-two length with expand_bits = 0,            *)
(* batch_expand_into_evaluate_ntt, then batch_interpolate_ntt, then        *)
(* batch_bit_reverse give back the original input row.  The kernels are    *)
(* not in the source; with the element orders modelled here (forward:      *)
(* natural in, bit-reversed out; inverse: bit-reversed in, natural out)    *)
(* the row is back after the inverse transform, and the bit reversal       *)
(* permutes it.                                                            *)
(***************************************************************************)
C21_RoundTripThenBitReverse ==
    ocall = RoundStage(3) => obuf = obuf0

\* The round trip under the element orders modelled here.
RoundTripBeforeBitReverse ==
    /\ ocall = RoundStage(2) => obuf = obuf0
    /\ ocall = RoundStage(3) => obuf = BitReverseRow(obuf0, log2_ceil(Len(obuf0)))


(***************************************************************************)
(* C22: in parallel mode no step kernel ever reads an INVALID cell: while  *)
(* a phase is being dispatched, every back cell of every cycle the phase   *)
(* steps was written, by the injection pre-pass of that phase, before the  *)
(* dispatch started, cycle 0 of the verify-bytes phase included, for which *)
(* the injection loop makes no call.  What the kernels load at cycle 0 is  *)
(* not in the source: the statement holds in the runs in which they load   *)
(* nothing there (UninitReadFreeWithoutWrap) and fails, in the             *)
(* verify-bytes dispatch, in the runs in which they load the rows they     *)
(* wrap around to.                                                         *)
(***************************************************************************)
C22_NoUninitRead ==
    mode = "par" =>
        /\ ~readUninit
        /\ \A ph \in Phases :
              pc = StepPc(ph) =>
                  \A c \in StepRange(ph) :
                      /\ BackCells(ph, c) # {} => c \in injected[ph]
                      /\ \A x \in BackCells(ph, c) : x \in written /\ data[x] # INVALID
                      /\ c \in stepped[ph] /\ ~failed => INVALID \notin acc[c].v

UninitReadFreeWithoutWrap == backAtZero = "none" => C22_NoUninitRead


\* The cycles below the ZK block, from cycle `from` on.
Below(from) == from .. (steps - ZK_CYCLES - 1)

\* The cycles a finished phase must have stepped.
MustStep(ph) == IF ph = "exec" THEN 0 .. (loadLast - 1) ELSE Below(0)

\* The cycles the injection loop of a phase visits in parallel mode.
MustInject(ph) ==
    CASE ph = "exec" -> 0 .. (loadLast - 1) [] ph = "ram" -> Below(0) [] ph = "bytes" -> Below(1)

(***************************************************************************)
(* C23, as amended: the two verify phases step exactly the cycles          *)
(* [0, steps - ZK_CYCLES), each once, and never a cycle of the ZK block;   *)
(* the execute phase steps exactly the cycles [0, last_cycle) the loader   *)
(* returned.  In parallel mode inject_exec_backs is called once for every  *)
(* cycle in [0, last_cycle), inject_verify_mem_backs once for every cycle  *)
(* in [0, steps - ZK_CYCLES) and inject_verify_bytes_backs once for every  *)
(* cycle in [1, steps - ZK_CYCLES), never for cycle 0; in sequential mode  *)
(* no inject_*_backs is called at all.                                     *)
(***************************************************************************)
C23_PhaseRanges ==
    /\ ~retried
    /\ \A ph \in Phases :
          /\ stepped[ph] \subseteq MustStep(ph)
          /\ ph \in {"ram", "bytes"} => stepped[ph] \cap ZkRows = {}
          /\ Pos > Rank(StepPc(ph)) => stepped[ph] = MustStep(ph)
          /\ mode = "par" =>
                /\ injected[ph] \subseteq MustInject(ph)
                /\ Pos > Rank(InjectPc(ph)) => injected[ph] = MustInject(ph)
          /\ mode = "seq" => injected[ph] = {}

\* A parallel run finished: the bytes phase injected cycles 1.. and stepped
\* cycles 0.., the exec phase fewer cycles than the verify phases.
C23_Witness ==
    /\ mode = "par"
    /\ pc = "done"
    /\ loadLast < steps - ZK_CYCLES
    /\ loadLast >= 1
    /\ injected["bytes"] = Below(1)
    /\ stepped["bytes"] = Below(0)
    /\ injected["ram"] = Below(0)

(***************************************************************************)
(* C23, as stated: whatever the mode, once a phase is over its steps and   *)
(* its inject_*_backs calls have visited exactly the cycles of its range,  *)
(* each once.                                                              *)
(***************************************************************************)
C23_PhaseRangesAnyMode ==
    /\ ~retried
    /\ \A ph \in Phases :
          /\ Pos > Rank(StepPc(ph)) => stepped[ph] = MustStep(ph)
          /\ Pos > Rank(InjectPc(ph)) => injected[ph] = MustInject(ph)


\* C24: no temporary device buffer is released while a kernel launched with a
\* pointer into it may still be running: no kernel pending on the stream has
\* had its temporaries dropped, and no kernel ever ran after they were.
C24_TempsOutliveKernel ==
    /\ ~dangling
    /\ \A i \in 1 .. Len(queue) : queue[i].temps # "dropped"


(***************************************************************************)
(* prefix_products on a sub-view: the caller fills a buffer, takes a slice *)
(* of it and runs the HAL method on a view.                                *)
(***************************************************************************)
\* let s = b.slice(off, len), before any prefix_products.
SubSlice(off, len) ==
    /\ ocall = PrefixCall(FALSE, FALSE)
    /\ BufSlice(1, off, len)
    /\ UNCHANGED ovars

InitSub == WitgenIdle /\ BufIdle /\ HalIdle /\ LockIdle /\ OpsIdle

NextSub ==
    \/ \E slice \in ExtSlices : PrefixCopyFrom(slice) /\ UNCHANGED <<wvars, hvars, lvars>>
    \/ \E off, len \in 0 .. MaxProd : SubSlice(off, len) /\ UNCHANGED <<wvars, hvars, lvars>>
    \/ \E v \in 1 .. MaxViews : HalPrefixProducts(v) /\ UNCHANGED <<wvars, hvars, lvars>>

SpecSub == InitSub /\ [][NextSub]_vars

\* C25: prefix_products on a sub-view s = b.slice(off, len) that ends before
\* the end of b replaces the len elements of s by their running products and
\* leaves every store element outside [off, off + len) as it was.
C25_SubViewFrame ==
    [][\A v \in 1 .. MaxViews :
          (/\ HalPrefixProducts(v)
           /\ views[v].offset + views[v].size < Len(stores[views[v].store].mem)) =>
              LET st == views[v].store
                  o == views[v].offset
                  n == views[v].size
              IN  /\ \A i \in 1 .. Len(stores[st].mem) :
                        (i <= o \/ i > o + n) => stores'[st].mem[i] = stores[st].mem[i]
                  /\ SubSeq(stores'[st].mem, o + 1, o + n) = RunningProducts(ViewSlice(v))]_vars


(***************************************************************************)
(* gather_sample with any arguments: the caller allocates dst and src and  *)
(* calls with an index, a size and a stride of its choice.  What a kernel  *)
(* launched over elements outside its buffers does is undefined; this      *)
(* machine stops at the launch.                                            *)
(***************************************************************************)
InitBounds == WitgenIdle /\ BufIdle /\ HalIdle /\ LockIdle /\ OpsIdle

NextBounds ==
    \/ \E ns \in 1 .. MaxSrc, nd \in 1 .. MaxDst, base \in 1 .. 2, fill \in 0 .. 1 :
          GatherAlloc(ns, nd, base, fill) /\ UNCHANGED <<wvars, bvars, hvars, lvars>>
    \/ \E idx \in 0 .. MaxSrc, size \in 0 .. (MaxDst + 1), stride \in 0 .. 2 :
          HalGatherSample(idx, size, stride) /\ UNCHANGED <<wvars, bvars, hvars, lvars>>

SpecBounds == InitBounds /\ [][NextBounds]_vars

\* C26: no HAL operation launches a kernel that addresses an element outside
\* the buffers it was given: a gather_sample call with size > dst.size() or
\* idx + (size - 1) * stride >= src.size() is rejected, no kernel is launched.
C26_OutOfRangeRejected ==
    (ocall.op = "gather_sample" /\ ~GatherInRange(obuf, ocall.idx, ocall.size, ocall.stride)) =>
        ocall.res = "panic"


\* n is a power of two: n == 1 << log2_ceil(n).
PowerOfTwo(n) == n = 2 ^ log2_ceil(n)

\* C27: batch_expand_into_evaluate_ntt runs a kernel only when the sizes are
\* multiples of poly_count, in_size and out_size are both powers of two and
\* log2(out_size) < MAX_ROU_PO2; every other call fails before any kernel.
C27_ExpandRunsOnPowersOfTwo ==
    (/\ ocall.op = "batch_expand_into_evaluate_ntt"
     /\ ocall.expanded \/ ocall.ntt) =>
        /\ ocall.poly_count # 0
        /\ ocall.out % ocall.poly_count = 0
        /\ ocall.in % ocall.poly_count = 0
        /\ PowerOfTwo(ocall.in \div ocall.poly_count)
        /\ PowerOfTwo(ocall.out \div ocall.poly_count)
        /\ log2_ceil(ocall.out \div ocall.poly_count) < MAX_ROU_PO2


(***************************************************************************)
(* The three implementations of CudaHash: what each hash_fold and          *)
(* hash_rows hands to its launch, and whether it synchronises.             *)
(***************************************************************************)
MaxDigests == 4

MaxMatrix == 8

SuiteLaunch(kernel, consts, params, output, input, arg1, arg2) ==
    [res |-> IF params.grid = 0 THEN "panic" ELSE "ok", kernel |-> kernel,
     consts |-> consts, grid |-> params.grid, block |-> params.block,
     output |-> output, input |-> input, arg1 |-> arg1, arg2 |-> arg2,
     sync |-> params.grid # 0]

SuitePanic == [res |-> "panic"]

\* impl CudaHash for CudaHashSha256
CudaHashSha256_hash_fold(output_size) ==
    SuiteLaunch("sha_fold", <<>>, compute_simple_params(output_size),
                output_size, 2 * output_size, output_size, 0)

CudaHashSha256_hash_rows(output, matrix) ==
    IF output = 0 THEN SuitePanic
    ELSE LET row_size == output
             col_size == matrix \div output
         IN  IF matrix # col_size * row_size THEN SuitePanic
             ELSE SuiteLaunch("sha_rows", <<>>, compute_simple_params(row_size),
                              0, 0, row_size, col_size)

\* impl CudaHash for CudaHashPoseidon
PoseidonConsts == <<"round_constants", "mds", "partial_comp_matrix", "partial_comp_offset">>

CudaHashPoseidon_hash_fold(output_size) ==
    SuiteLaunch("poseidon_fold", PoseidonConsts, compute_simple_params(output_size),
                output_size, 2 * output_size, output_size, 0)

CudaHashPoseidon_hash_rows(output, matrix) ==
    IF output = 0 THEN SuitePanic
    ELSE LET row_size == output
             col_size == matrix \div output
         IN  IF matrix # col_size * row_size THEN SuitePanic
             ELSE SuiteLaunch("poseidon_rows", PoseidonConsts, compute_simple_params(row_size),
                              0, 0, row_size, col_size)

\* impl CudaHash for CudaHashPoseidon2
Poseidon2Consts == <<"round_constants", "m_int_diag">>

\* Variant: the input pointer is taken at output_size.
CudaHashPoseidon2_hash_fold_InputAtOutput(output_size) ==
    SuiteLaunch("poseidon2_fold", Poseidon2Consts, compute_simple_params(output_size),
                output_size, output_size, output_size, 0)

CudaHashPoseidon2_hash_fold(output_size) ==
    SuiteLaunch("poseidon2_fold", Poseidon2Consts, compute_simple_params(output_size),
                output_size, 2 * output_size, output_size, 0)

CudaHashPoseidon2_hash_rows(output, matrix) ==
    IF output = 0 THEN SuitePanic
    ELSE LET row_size == output
             col_size == matrix \div output
         IN  IF matrix # col_size * row_size THEN SuitePanic
             ELSE SuiteLaunch("poseidon2_rows", Poseidon2Consts, compute_simple_params(row_size),
                              0, 0, row_size, col_size)

\* self.hash.as_ref().unwrap().hash_fold(self, io, output_size)
SuiteHashFold(h, output_size) ==
    CASE h = "sha256" -> CudaHashSha256_hash_fold(output_size)
      [] h = "poseidon" -> CudaHashPoseidon_hash_fold(output_size)
      [] h = "poseidon2" -> CudaHashPoseidon2_hash_fold(output_size)

\* self.hash.as_ref().unwrap().hash_rows(self, output, matrix)
SuiteHashRows(h, output, matrix) ==
    CASE h = "sha256" -> CudaHashSha256_hash_rows(output, matrix)
      [] h = "poseidon" -> CudaHashPoseidon_hash_rows(output, matrix)
      [] h = "poseidon2" -> CudaHashPoseidon2_hash_rows(output, matrix)

\* A HAL built over suite h folds with output_size.
CallHashFold(h, output_size) ==
    /\ ocall' = [op |-> "suite_hash_fold", suite |-> h, size |-> output_size,
                 launch |-> SuiteHashFold(h, output_size)]
    /\ UNCHANGED <<obuf, obuf0, ohist>>

\* A HAL built over suite h hashes the rows of a matrix of matrix elements
\* into output digests.
CallHashRows(h, output, matrix) ==
    /\ ocall' = [op |-> "suite_hash_rows", suite |-> h, output |-> output,
                 matrix |-> matrix, launch |-> SuiteHashRows(h, output, matrix)]
    /\ UNCHANGED <<obuf, obuf0, ohist>>

InitSuite == WitgenIdle /\ BufIdle /\ HalIdle /\ LockIdle /\ OpsIdle

NextSuite ==
    \/ \E h \in Suites, k \in 0 .. MaxDigests :
          CallHashFold(h, k) /\ UNCHANGED <<wvars, bvars, hvars, lvars>>
    \/ \E h \in Suites, o \in 0 .. MaxDigests, mx \in 0 .. MaxMatrix :
          CallHashRows(h, o, mx) /\ UNCHANGED <<wvars, bvars, hvars, lvars>>

SpecSuite == InitSuite /\ [][NextSuite]_vars

\* What a launch is apart from the hash primitive: everything but the kernel
\* and its constant tables.
Contract(l) ==
    IF l.res = "panic" THEN SuitePanic
    ELSE [res |-> l.res, grid |-> l.grid, block |-> l.block, output |-> l.output,
          input |-> l.input, arg1 |-> l.arg1, arg2 |-> l.arg2, sync |-> l.sync]

(***************************************************************************)
(* C28: the three hash suites obey the same row and fold contracts apart   *)
(* from the hash primitive.  A hash_fold that launched reads from element  *)
(* offset 2 * output_size, writes at element offset output_size, launches  *)
(* over output_size items and synchronises; a hash_rows uses               *)
(* row_size = output.size() and col_size = matrix.size() / output.size(),  *)
(* is rejected when matrix.size() # col_size * row_size, and synchronises; *)
(* and on the same arguments the other suites do the same.                 *)
(***************************************************************************)
C28_SuitesAgree ==
    /\ ocall.op = "suite_hash_fold" =>
          /\ ocall.launch.res = "ok" =>
                /\ ocall.launch.input = 2 * ocall.size
                /\ ocall.launch.output = ocall.size
                /\ ocall.launch.arg1 = ocall.size
                /\ ocall.launch.grid * ocall.launch.block >= ocall.size
                /\ ocall.launch.sync
          /\ \A h \in Suites :
                Contract(SuiteHashFold(h, ocall.size)) = Contract(ocall.launch)
    /\ ocall.op = "suite_hash_rows" =>
          /\ (ocall.output # 0 /\ ocall.matrix % ocall.output # 0) =>
                ocall.launch.res = "panic"
          /\ ocall.launch.res = "ok" =>
                /\ ocall.launch.arg1 = ocall.output
                /\ ocall.launch.arg2 = ocall.matrix \div ocall.output
                /\ ocall.launch.arg1 * ocall.launch.arg2 = ocall.matrix
                /\ ocall.launch.sync
          /\ \A h \in Suites :
                Contract(SuiteHashRows(h, ocall.output, ocall.matrix)) = Contract(ocall.launch)

\* A Poseidon2 fold over three outputs was launched.
C28_Witness ==
    /\ ocall.op = "suite_hash_fold"
    /\ ocall.suite = "poseidon2"
    /\ ocall.size = 3
    /\ ocall.launch.res = "ok"
    /\ ocall.launch.kernel = "poseidon2_fold"
    /\ ocall.launch.input = 6


(***************************************************************************)
(* C29: the noise step leaves every ctrl and data cell of the cycles       *)
(* [0, steps - ZK_CYCLES) and all of io unchanged; the sanitize step       *)
(* leaves ctrl and every valid data and io cell unchanged and changes      *)
(* exactly the INVALID cells, to ZERO; sanitizing its result once more     *)
(* changes nothing.                                                        *)
(***************************************************************************)
C29_NoiseAndSanitizeFrames ==
    [][/\ Noise =>
            /\ \A x \in DOMAIN ctrl : (x % steps) < steps - ZK_CYCLES => ctrl'[x] = ctrl[x]
            /\ \A x \in DOMAIN data : (x % steps) < steps - ZK_CYCLES => data'[x] = data[x]
            /\ DOMAIN ctrl' = DOMAIN ctrl
            /\ DOMAIN data' = DOMAIN data
            /\ io' = io
       /\ Zeroize =>
            /\ ctrl' = ctrl
            /\ DOMAIN data' = DOMAIN data
            /\ DOMAIN io' = DOMAIN io
            /\ \A x \in DOMAIN data :
                  data'[x] = (IF data[x] = INVALID THEN ZERO ELSE data[x])
            /\ \A x \in DOMAIN io :
                  io'[x] = (IF io[x] = INVALID THEN ZERO ELSE io[x])
            /\ [x \in DOMAIN data' |-> valid_or_zero(data'[x])] = data'
            /\ [x \in DOMAIN io' |-> valid_or_zero(io'[x])] = io']_vars

\* Both steps ran: a ctrl cell below the ZK rows is non-zero, a data cell
\* that nothing wrote is now ZERO, and a data cell that was written kept a
\* non-zero value.
C29_Witness ==
    /\ pc = "done"
    /\ ~failed
    /\ \E x \in DOMAIN ctrl : (x % steps) < steps - ZK_CYCLES /\ ctrl[x] # ZERO
    /\ \E x \in DOMAIN data : x \notin written /\ data[x] = ZERO
    /\ \E x \in DOMAIN data : x \in written /\ data[x] # ZERO


(***************************************************************************)
(* Host access from inside a callback.  BufferImpl keeps its store in an   *)
(* Rc<RefCell<RawBuffer>>: name takes buffer.borrow(), get_at, view,       *)
(* view_mut and as_device_ptr take buffer.borrow_mut(), and view and       *)
(* view_mut hold their borrow while the callback f runs.  ohist is the     *)
(* stack of the callbacks that are running, ocall the last access.         *)
(***************************************************************************)
BorrowFns == {"name", "get_at", "view", "view_mut", "as_device_ptr"}

\* Variant: view takes buffer.borrow().
BorrowOf_ViewShared(fn) == IF fn \in {"name", "view"} THEN "shared" ELSE "mut"

\* The borrow each accessor takes on self.buffer.
BorrowOf(fn) == IF fn = "name" THEN "shared" ELSE "mut"

\* The borrows of store s that running callbacks hold.
Held(s) ==
    {ohist[i].kind : i \in {j \in 1 .. Len(ohist) : views[ohist[j].view].store = s}}

\* RefCell::borrow / RefCell::borrow_mut succeed; otherwise they panic.
try_borrow(kind, held) == IF kind = "shared" THEN "mut" \notin held ELSE held = {}

\* An access and how it ended; for one that panicked, during is the stack
\* of callbacks the panic unwound through.
Access(fn, w, res, during) ==
    [op |-> "access", fn |-> fn, view |-> w, res |-> res,
     during |-> IF res \in {"borrow_panic", "read_panic"} THEN during ELSE <<>>]

\* The caller builds its buffers, of MaxLen zeros each, and its slices
\* before any access; the buffers are ones whose allocation went through.
BorrowCopyFrom ==
    /\ ocall = NoOp
    /\ CopyFrom([i \in 1 .. MaxLen |-> 0], TRUE)
    /\ UNCHANGED ovars

BorrowSlice(v, offset, size) ==
    /\ ocall = NoOp
    /\ offset + size <= views[v].size
    /\ BufSlice(v, offset, size)
    /\ UNCHANGED ovars

\* The index arguments of accessor fn: get_at alone takes one.
AccessIdx(fn) == IF fn = "get_at" THEN 0 .. (MaxLen - 1) ELSE {0}

\* The ways the cast of accessor fn on view w can end: view casts the
\* elements of the view, which may be none; get_at casts one element and
\* view_mut the whole store, and the others cast nothing.
AccessAborts(fn, w) == IF fn = "view" THEN CastAborts(views[w].size) ELSE {FALSE}

\* How a call of accessor fn on view w ends (get_at with index idx): the
\* borrow panics; or the read of get_at reaches past the end of the store,
\* the driver refuses it and the unwrap panics; or the cast of view aborts
\* the process (ab); or the accessor goes through.
AccessResult(fn, w, idx, ab) ==
    IF ~try_borrow(BorrowOf(fn), Held(views[w].store)) THEN "borrow_panic"
    ELSE IF fn = "get_at" /\ views[w].offset + idx >= Len(stores[views[w].store].mem)
         THEN "read_panic"
    ELSE IF ab THEN "abort"
    ELSE "ok"

\* A call of accessor fn on view w, from the top level or from inside the
\* innermost running callback.  A panic unwinds through the running
\* callbacks, so that every borrow is released and no view_mut writes its
\* host copy back; when the accessor goes through it reads and returns, or
\* (view, view_mut) its callback starts running.
BufAccess(fn, w, idx, ab) ==
    /\ ~aborted
    /\ Live(w)
    /\ idx \in AccessIdx(fn)
    /\ ab \in AccessAborts(fn, w)
    /\ LET res == AccessResult(fn, w, idx, ab)
       IN  /\ ocall' = Access(fn, w, res, ohist)
           /\ aborted' = (res = "abort")
           /\ ohist' = IF res \in {"borrow_panic", "read_panic"} THEN <<>>
                       ELSE IF res = "ok" /\ fn \in {"view", "view_mut"}
                            THEN Append(ohist, [view |-> w, fn |-> fn, kind |-> BorrowOf(fn)])
                            ELSE ohist
    /\ UNCHANGED <<stores, views, tracker, released, lastSlice, obuf, obuf0>>

\* The innermost callback returns: view_mut, whose callback stored MaxVal in
\* its slice, writes the host copy back; the borrow is released.
BufReturn ==
    /\ ~aborted
    /\ ohist # <<>>
    /\ LET top == ohist[Len(ohist)]
       IN  /\ IF top.fn = "view_mut" THEN BufViewMut(top.view, MaxVal) ELSE UNCHANGED bvars
           /\ ocall' = [op |-> "return", fn |-> top.fn, view |-> top.view, res |-> "ok"]
    /\ ohist' = SubSeq(ohist, 1, Len(ohist) - 1)
    /\ UNCHANGED <<obuf, obuf0>>

InitBorrow == WitgenIdle /\ BufIdle /\ HalIdle /\ LockIdle /\ OpsIdle

NextBorrow ==
    \/ BorrowCopyFrom /\ UNCHANGED <<wvars, hvars, lvars>>
    \/ \E v \in 1 .. MaxViews : \E o, n \in 0 .. MaxLen :
          BorrowSlice(v, o, n) /\ UNCHANGED <<wvars, hvars, lvars>>
    \/ \E fn \in BorrowFns, w \in 1 .. MaxViews :
          \E idx \in AccessIdx(fn), ab \in AccessAborts(fn, w) :
              BufAccess(fn, w, idx, ab) /\ UNCHANGED <<wvars, hvars, lvars>>
    \/ BufReturn /\ UNCHANGED <<wvars, hvars, lvars>>

SpecBorrow == InitBorrow /\ [][NextBorrow]_vars

\* View w shares its store with the view of a running callback.
SharesRunning(w) ==
    \E i \in 1 .. Len(ohist) : views[ohist[i].view].store = views[w].store

(***************************************************************************)
(* C30: host access to a store is exclusive.  While the callback of view   *)
(* or view_mut is running, a call of name, get_at, view, view_mut or       *)
(* as_device_ptr on a view that shares the store of a running callback     *)
(* (the buffer itself, its parent, a sibling slice) panics on its borrow   *)
(* and leaves every store as it was; a call on a view of another store is  *)
(* not stopped by a borrow.                                                *)
(***************************************************************************)
C30_ExclusiveHostAccess ==
    [][\A fn \in BorrowFns, w \in 1 .. MaxViews :
       \A idx \in AccessIdx(fn), ab \in AccessAborts(fn, w) :
          (BufAccess(fn, w, idx, ab) /\ ohist # <<>>) =>
              IF SharesRunning(w)
              THEN ocall'.res = "borrow_panic" /\ stores' = stores /\ ohist' = <<>>
              ELSE ocall'.res # "borrow_panic"]_vars

\* name called on a sibling slice from inside a callback of the parent
\* panicked.
C30_Witness ==
    /\ ocall.op = "access"
    /\ ocall.fn = "name"
    /\ ocall.res = "borrow_panic"
    /\ Len(ocall.during) = 1
    /\ ocall.during[1].view # ocall.view
    /\ views[ocall.during[1].view].store = views[ocall.view].store
    /\ views[ocall.view].offset > 0


(***************************************************************************)
(* C31: the singleton lock covers the whole lifetime of a CudaHal's device *)
(* resources: while a stream created by CudaHal::new on thread t still     *)
(* exists, thread t holds the lock and no other thread owns a CudaHal.     *)
(***************************************************************************)
C31_LockCoversResources ==
    \A t \in Threads :
        streams[t] > 0 =>
            /\ owner = t
            /\ \A u \in Threads \ {t} : hals[u] = 0


(***************************************************************************)
(* Launch parameters: div_ceil, compute_simple_params and the parameters   *)
(* batch_evaluate_any asks for, on arguments over the whole integer range; *)
(* one call is followed from the idle state.                               *)
(***************************************************************************)
ParamsCall(op, a, b, panics, grid, block) ==
    IF panics THEN [op |-> op, a |-> a, b |-> b, res |-> "panic"]
    ELSE [op |-> op, a |-> a, b |-> b, res |-> "ok", grid |-> grid, block |-> block]

\* A call of div_ceil(a, b).
CallDivCeil(a, b) ==
    /\ ocall = NoOp
    /\ ocall' = IF DivCeilPanics(a, b)
                THEN ParamsCall("div_ceil", a, b, TRUE, 0, 0)
                ELSE ParamsCall("div_ceil", a, b, FALSE, div_ceil(a, b), b)
    /\ UNCHANGED <<obuf, obuf0, ohist>>

\* A call of compute_simple_params(count).
CallSimpleParams(cnt) ==
    /\ ocall = NoOp
    /\ ocall' = IF SimpleParamsPanics(cnt)
                THEN ParamsCall("compute_simple_params", cnt, 0, TRUE, 0, 0)
                ELSE ParamsCall("compute_simple_params", cnt, 0, FALSE,
                                compute_simple_params(cnt).grid,
                                compute_simple_params(cnt).block)
    /\ UNCHANGED <<obuf, obuf0, ohist>>

\* batch_evaluate_any with out.size() = out:
\* compute_simple_params(out.size() * threads_per_block).
CallEvaluateParams(out) ==
    /\ ocall = NoOp
    /\ LET threads_per_block == max_threads \div 4
           cnt == out * threads_per_block
       IN  ocall' = IF SimpleParamsPanics(cnt)
                    THEN ParamsCall("batch_evaluate_any", out, 0, TRUE, 0, 0)
                    ELSE ParamsCall("batch_evaluate_any", out, 0, FALSE,
                                    compute_simple_params(cnt).grid,
                                    compute_simple_params(cnt).block)
    /\ UNCHANGED <<obuf, obuf0, ohist>>

InitParams == WitgenIdle /\ BufIdle /\ HalIdle /\ LockIdle /\ OpsIdle

NextParams ==
    \/ \E a, b \in 0 .. U32_MAX : CallDivCeil(a, b) /\ UNCHANGED <<wvars, bvars, hvars, lvars>>
    \/ \E cnt \in 0 .. (U32_MAX + 2) : CallSimpleParams(cnt) /\ UNCHANGED <<wvars, bvars, hvars, lvars>>
    \/ \E out \in 0 .. U32_MAX : CallEvaluateParams(out) /\ UNCHANGED <<wvars, bvars, hvars, lvars>>

SpecParams == InitParams /\ [][NextParams]_vars

(***************************************************************************)
(* C32, as stated: launch parameters are correctly sized and never wrap.   *)
(* For every count that fits in u32, compute_simple_params(count) returns  *)
(* block = max_threads / 4 and grid with                                   *)
(* grid * block >= count > (grid - 1) * block; div_ceil returns            *)
(* ceil(a / b) exactly or panics when a + b exceeds the integer range; and *)
(* batch_evaluate_any gets exactly out.size() blocks of max_threads / 4    *)
(* threads for every out.size() whose thread count fits in u32.            *)
(***************************************************************************)
C32_LaunchParamsForEveryCount ==
    /\ (ocall.op = "div_ceil" /\ ocall.res = "ok") =>
          /\ ocall.grid * ocall.b >= ocall.a
          /\ (ocall.grid - 1) * ocall.b < ocall.a
          /\ ocall.a + ocall.b <= U32_MAX
    /\ (ocall.op = "compute_simple_params" /\ ocall.a <= U32_MAX) =>
          /\ ocall.res = "ok"
          /\ ocall.block = max_threads \div 4
          /\ ocall.grid * ocall.block >= ocall.a
          /\ ocall.a > (ocall.grid - 1) * ocall.block
    /\ (ocall.op = "batch_evaluate_any" /\ ocall.a * (max_threads \div 4) <= U32_MAX) =>
          /\ ocall.res = "ok"
          /\ ocall.grid = ocall.a
          /\ ocall.block = max_threads \div 4

(***************************************************************************)
(* C32, amended: div_ceil returns ceil(a / b) exactly, or panics, which it *)
(* does exactly when a + b exceeds the integer range (or b is 0); it never *)
(* returns a result computed from a wrapped sum.  compute_simple_params    *)
(* returns exactly for the counts with count + max_threads / 4 inside the  *)
(* u32 range, and then gives block = max_threads / 4 and grid with         *)
(* grid * block >= count > (grid - 1) * block; for the counts within       *)
(* max_threads / 4 of the top of the range, as for those that do not fit   *)
(* in u32, it panics.  Whenever batch_evaluate_any gets its parameters     *)
(* they are exactly out.size() blocks of max_threads / 4 threads.          *)
(***************************************************************************)
C32_LaunchParamsSized ==
    /\ ocall.op = "div_ceil" =>
          /\ (ocall.res = "panic") <=> (ocall.a + ocall.b > U32_MAX \/ ocall.b = 0)
          /\ ocall.res = "ok" =>
                /\ ocall.grid * ocall.b >= ocall.a
                /\ (ocall.grid - 1) * ocall.b < ocall.a
                /\ ocall.grid <= U32_MAX
    /\ ocall.op = "compute_simple_params" =>
          /\ (ocall.res = "panic") <=>
                (ocall.a > U32_MAX \/ ocall.a + max_threads \div 4 > U32_MAX)
          /\ ocall.res = "ok" =>
                /\ ocall.block = max_threads \div 4
                /\ ocall.grid * ocall.block >= ocall.a
                /\ ocall.a > (ocall.grid - 1) * ocall.block
    /\ ocall.op = "batch_evaluate_any" =>
          /\ (ocall.res = "panic") <=>
                ((ocall.a + 1) * (max_threads \div 4) > U32_MAX)
          /\ ocall.res = "ok" =>
                /\ ocall.grid = ocall.a
                /\ ocall.block = max_threads \div 4

\* compute_simple_params was called with a count that fits in u32 and lies
\* within max_threads / 4 of the top of the range, and panicked.
C32_Witness ==
    /\ ocall.op = "compute_simple_params"
    /\ ocall.a <= U32_MAX
    /\ ocall.a > U32_MAX - max_threads \div 4
    /\ ocall.res = "panic"

====
